---- MODULE Spec2Model ----
\* Model of the lyrics resolver of lrclib-fetcher-ts: LrcLibClient.searchLyrics
\* (src/src/api/lrclib.ts, the class of lines 178-628) and the transport it
\* queries.  One searchLyrics call is a process whose position is pc; the
\* transport is the environment that answers each query.  Spec runs one call,
\* SpecClient several calls on one client, SpecDir the orchestrator that
\* processes the audio files of a directory in batches.
EXTENDS Integers, Sequences, FiniteSets, TLC

VARIABLES
    pc,                \* position of the searchLyrics call
    metadata,          \* argument: TrackMetadata
    options,           \* argument: LyricSearchOptions | undefined
    exactMatch,        \* local of searchLyrics (<<>> is null, <<r>> a LyricResult)
    artistTitleMatch,  \* local of searchLyrics
    titleMatch,        \* local of searchLyrics
    requests,          \* the queries issued to httpClient.get, in order
    response,          \* the transport's answer not yet handled (<<>> if none)
    responded,         \* the answers the call has received, in order: tier and kind
    result,            \* outcome of the call: pending, returned or raised
    focus,             \* the searchLyrics call whose frame the variables above hold
    parked,            \* the frames of the other calls on the same client
    stub,              \* deterministic transport: the answer to the query of each tier
    after,             \* pairs <<c, d>>: call c had finished before call d began
    dpc,               \* position of the caller of the fetcher and of processDirectory
    createOptions,     \* argument of createLyricsFetcher
    dirOptions,        \* argument options of processDirectory
    mergedOptions,     \* local of processDirectory
    directory,         \* the audio files of the directory, in readdir order
    lyricsFiles,       \* the lyrics files on disk: pairs <<audio file, extension>>
    audioFiles,        \* local of processDirectory: the scanned files
    loopIndex,         \* local i of processDirectory: index of the batch loop
    batchNo,           \* the number of iterations of the batch loop begun
    running,           \* the frames of the processAudioFile calls of the batch in flight
    batchResults,      \* the promises of the batch in flight: <<>> while unsettled
    allResults,        \* local results of processDirectory
    processed,         \* local of processDirectory
    progress,          \* the calls onProgress(processed, total) made by processDirectory
    calls,             \* per scanned file, the calls its processAudioFile made on the
                       \* extractor, the transport and the file system, in order
    clock              \* the time in milliseconds since the run began

callVars == <<pc, metadata, options, exactMatch, artistTitleMatch, titleMatch,
              requests, response, responded, result>>
clientVars == <<focus, parked, stub, after>>
dirVars == <<dpc, createOptions, dirOptions, mergedOptions, directory, lyricsFiles,
             audioFiles, loopIndex, batchNo, running, batchResults, allResults, processed,
             progress, calls, clock>>
otherVars == <<clientVars, dirVars>>
vars == <<callVars, otherVars>>

-----------------------------------------------------------------------------
\* JavaScript values.  A string is a sequence of one-character strings.

Undefined == [t |-> "undefined", s |-> <<>>, n |-> 0]
Null == [t |-> "null", s |-> <<>>, n |-> 0]
Str(s) == [t |-> "string", s |-> s, n |-> 0]
Num(n) == [t |-> "number", s |-> <<>>, n |-> n]
Bool(b) == [t |-> "boolean", s |-> <<>>, n |-> IF b THEN 1 ELSE 0]

\* ToBoolean of a value: undefined, null, "", 0 and false are falsy.
Truthy(v) ==
    CASE v.t = "undefined" -> FALSE
      [] v.t = "null" -> FALSE
      [] v.t = "string" -> v.s # <<>>
      [] v.t = "number" -> v.n # 0
      [] v.t = "boolean" -> v.n = 1

\* a || b
JsOr(a, b) == IF Truthy(a) THEN a ELSE b

Nullish(v) == v.t \in {"undefined", "null"}

\* Number.prototype.toString for a natural number: its decimal digits.
Digit(d) == <<"0", "1", "2", "3", "4", "5", "6", "7", "8", "9">>[d + 1]

RECURSIVE NatToString(_)
NatToString(n) ==
    IF n < 10 THEN <<Digit(n)>> ELSE NatToString(n \div 10) \o <<Digit(n % 10)>>

\* The number NaN.  Arithmetic with NaN gives NaN and every comparison with
\* NaN is false.
NaN == [t |-> "number", s |-> <<"NaN">>, n |-> 0]

\* a + b and a < b for numbers
JsAdd(a, b) == IF a = NaN \/ b = NaN THEN NaN ELSE Num(a.n + b.n)
JsLess(a, b) == a # NaN /\ b # NaN /\ a.n < b.n

\* parseInt(s) for a string without white space: an optional sign and the
\* leading decimal digits; NaN when there is no digit.
IsDigit(c) == \E d \in 0..9 : Digit(d) = c

RECURSIVE DigitsValue(_, _)
DigitsValue(s, acc) ==
    IF s = <<>> \/ ~IsDigit(s[1]) THEN acc
    ELSE DigitsValue(Tail(s), 10 * acc + (CHOOSE d \in 0..9 : Digit(d) = s[1]))

ParseInt(s) ==
    LET signed == s # <<>> /\ s[1] \in {"-", "+"}
        digits == IF signed THEN Tail(s) ELSE s
    IN  IF digits = <<>> \/ ~IsDigit(digits[1]) THEN NaN
        ELSE IF s[1] = "-" THEN Num(0 - DigitsValue(digits, 0))
        ELSE Num(DigitsValue(digits, 0))

\* An argument of Array.prototype.slice as an index into an array of length
\* len: NaN counts as 0, a negative number counts from the end.
RelativeIndex(v, len) ==
    IF v = NaN THEN 0
    ELSE IF v.n < 0 THEN (IF len + v.n < 0 THEN 0 ELSE len + v.n)
    ELSE IF v.n < len THEN v.n ELSE len

\* The indices (from 1) of the elements of array.slice(start, end)
SliceIndices(len, start, end) ==
    {j \in 1..len : RelativeIndex(start, len) < j /\ j <= RelativeIndex(end, len)}

\* String.prototype.toLowerCase on the model's alphabet.
LowerChar(c) ==
    CASE c = "A" -> "a"
      [] c = "B" -> "b"
      [] c = "T" -> "t"
      [] c = "L" -> "l"
      [] OTHER -> c

ToLowerCase(s) == [i \in 1..Len(s) |-> LowerChar(s[i])]

\* String.prototype.includes: sub occurs in s as a contiguous substring.
Includes(s, sub) ==
    \E i \in 0..(Len(s) - Len(sub)) :
        \A j \in 1..Len(sub) : s[i + j] = sub[j]

-----------------------------------------------------------------------------
\* Response bodies.  A body (and an element of an array body) is a scalar, an
\* object or an array.  An object maps every key of Keys to a value; a key the
\* object does not have maps to Undefined.

ArtistKeys == <<"artistName", "artist_name", "artist">>
TitleKeys == <<"trackName", "track_name", "title">>
AlbumKeys == <<"albumName", "album_name", "album">>
SyncedKeys == <<"syncedLyrics", "synced_lyrics", "lrc">>
PlainKeys == <<"plainLyrics", "plain_lyrics", "text">>

Range(f) == {f[i] : i \in DOMAIN f}

Keys ==
    Range(ArtistKeys) \cup Range(TitleKeys) \cup Range(AlbumKeys)
        \cup Range(SyncedKeys) \cup Range(PlainKeys) \cup {"instrumental", "id"}

EmptyObject == [k \in Keys |-> Undefined]

Scalar(v) == [shape |-> "scalar", val |-> v, obj |-> EmptyObject, arr |-> <<>>]
Object(o) == [shape |-> "object", val |-> Undefined, obj |-> o, arr |-> <<>>]
Array(a) == [shape |-> "array", val |-> Undefined, obj |-> EmptyObject, arr |-> a]

\* ToBoolean of a body: objects and arrays are truthy, also when empty.
DataTruthy(d) == IF d.shape = "scalar" THEN Truthy(d.val) ELSE TRUE

\* typeof d === 'object' (null included, as in JavaScript)
TypeofObject(d) == d.shape \in {"object", "array"} \/ (d.shape = "scalar" /\ d.val.t = "null")

\* Object.keys(d).length for an object or an array
NumKeys(d) ==
    IF d.shape = "object" THEN Cardinality({k \in Keys : d.obj[k].t # "undefined"})
    ELSE Len(d.arr)

\* d.k for a body that is not null or undefined
Get(d, k) == IF d.shape = "object" THEN d.obj[k] ELSE Undefined

-----------------------------------------------------------------------------
\* LyricResult | null is <<>> for null and <<r>> for a result r.

\* Variant of processApiResponse without the test for lyric content.
ProcessApiResponseKeepsContentless(data, md) ==
    IF ~DataTruthy(data) THEN <<>>
    ELSE IF TypeofObject(data) /\ NumKeys(data) = 0 THEN <<>>
    ELSE << [artist |-> JsOr(Get(data, "artistName"), Str(md.artist)),
             title |-> JsOr(Get(data, "trackName"), Str(md.title)),
             album |-> JsOr(Get(data, "albumName"), JsOr(md.album, Str(<<>>))),
             syncedLyrics |-> JsOr(Get(data, "syncedLyrics"), Null),
             plainLyrics |-> JsOr(Get(data, "plainLyrics"), Null),
             source |-> "lrclib.net",
             instrumental |-> Truthy(Get(data, "instrumental"))] >>

\* Variant of processApiResponse that reads the snake_case names first.
ProcessApiResponseSnakeFirst(data, md) ==
    IF ~DataTruthy(data) THEN <<>>
    ELSE IF TypeofObject(data) /\ NumKeys(data) = 0 THEN <<>>
    ELSE
        LET artist == JsOr(Get(data, "artist_name"), JsOr(Get(data, "artistName"),
                        JsOr(Get(data, "artist"), Str(md.artist))))
            title == JsOr(Get(data, "track_name"), JsOr(Get(data, "trackName"),
                        JsOr(Get(data, "title"), Str(md.title))))
            album == JsOr(Get(data, "album_name"), JsOr(Get(data, "albumName"),
                        JsOr(Get(data, "album"), JsOr(md.album, Str(<<>>)))))
            syncedLyrics == JsOr(Get(data, "synced_lyrics"), JsOr(Get(data, "syncedLyrics"),
                        JsOr(Get(data, "lrc"), Null)))
            plainLyrics == JsOr(Get(data, "plain_lyrics"), JsOr(Get(data, "plainLyrics"),
                        JsOr(Get(data, "text"), Null)))
        IN  IF ~Truthy(syncedLyrics) /\ ~Truthy(plainLyrics)
                  /\ ~Truthy(Get(data, "instrumental"))
            THEN <<>>
            ELSE << [artist |-> artist,
                     title |-> title,
                     album |-> album,
                     syncedLyrics |-> syncedLyrics,
                     plainLyrics |-> plainLyrics,
                     source |-> "lrclib.net",
                     instrumental |-> Truthy(Get(data, "instrumental"))] >>

\* processApiResponse(data, metadata)
ProcessApiResponse(data, md) ==
    IF ~DataTruthy(data) THEN <<>>
    ELSE IF TypeofObject(data) /\ NumKeys(data) = 0 THEN <<>>
    ELSE
        LET artist == JsOr(Get(data, "artistName"), JsOr(Get(data, "artist_name"),
                        JsOr(Get(data, "artist"), Str(md.artist))))
            title == JsOr(Get(data, "trackName"), JsOr(Get(data, "track_name"),
                        JsOr(Get(data, "title"), Str(md.title))))
            album == JsOr(Get(data, "albumName"), JsOr(Get(data, "album_name"),
                        JsOr(Get(data, "album"), JsOr(md.album, Str(<<>>)))))
            syncedLyrics == JsOr(Get(data, "syncedLyrics"), JsOr(Get(data, "synced_lyrics"),
                        JsOr(Get(data, "lrc"), Null)))
            plainLyrics == JsOr(Get(data, "plainLyrics"), JsOr(Get(data, "plain_lyrics"),
                        JsOr(Get(data, "text"), Null)))
        IN  IF ~Truthy(syncedLyrics) /\ ~Truthy(plainLyrics)
                  /\ ~Truthy(Get(data, "instrumental"))
            THEN <<>>
            ELSE << [artist |-> artist,
                     title |-> title,
                     album |-> album,
                     syncedLyrics |-> syncedLyrics,
                     plainLyrics |-> plainLyrics,
                     source |-> "lrclib.net",
                     instrumental |-> Truthy(Get(data, "instrumental"))] >>

\* Thrown values: an error has a name and a message (a sequence of text pieces).
NoError == [name |-> "", message |-> <<>>]
TypeError(msg) == [name |-> "TypeError", message |-> <<msg>>]

\* new LyricsFetchError(artist, title, reason): the message embeds the reason.
LyricsFetchError(artist, title, reason) ==
    [name |-> "LyricsFetchError",
     message |-> <<"Failed to fetch lyrics for \"">> \o artist \o <<" - ">> \o title
                    \o <<"\": ">> \o reason]

\* The outcome of a function that returns a value or throws.
Return(v) == [threw |-> FALSE, error |-> NoError, value |-> v]
Throw(e) == [threw |-> TRUE, error |-> e, value |-> <<>>]

\* The filter callback of findBestMatch on one element: "throw", "match" or "no".
ArtistMatchCheck(r, md) ==
    IF r.shape = "scalar" /\ Nullish(r.val) THEN "throw"
    ELSE LET an == Get(r, "artistName")
         IN  IF ~Nullish(an) /\ an.t # "string" THEN "throw"
             ELSE LET resultArtist == IF Nullish(an) THEN <<>> ELSE ToLowerCase(an.s)
                      searchArtist == ToLowerCase(md.artist)
                  IN  IF Includes(resultArtist, searchArtist)
                            \/ Includes(searchArtist, resultArtist)
                      THEN "match" ELSE "no"

\* findBestMatch(results, metadata) for a non-empty array results
FindBestMatch(results, md) ==
    LET check == [i \in 1..Len(results) |-> ArtistMatchCheck(results[i], md)]
        throwers == {i \in 1..Len(results) : check[i] = "throw"}
        artistMatches == {i \in 1..Len(results) : check[i] = "match"}
    IN  IF throwers # {}
        THEN LET i == CHOOSE x \in throwers : \A y \in throwers : x <= y
             IN  IF results[i].shape = "scalar"
                 THEN Throw(TypeError("Cannot read properties of null (reading 'artistName')"))
                 ELSE Throw(TypeError("result.artistName?.toLowerCase is not a function"))
        ELSE IF artistMatches # {}
        THEN Return(results[CHOOSE x \in artistMatches : \A y \in artistMatches : x <= y])
        ELSE Return(results[1])

\* The transport's answer to one query: a 2xx response with a body, or a
\* failure (no connection, or a non-2xx status, which the client rejects).
Ok(data) == [ok |-> TRUE, data |-> data, error |-> NoError]
Fail(msg) == [ok |-> FALSE, data |-> Scalar(Undefined), error |-> [name |-> "AxiosError", message |-> <<msg>>]]

\* Variant of the body handling that maps the first element with content.
FirstCandidateWithContent(data, md) ==
    IF DataTruthy(data)
    THEN IF data.shape = "array"
         THEN LET mapped == [i \in 1..Len(data.arr) |-> ProcessApiResponse(data.arr[i], md)]
                  found == {i \in 1..Len(data.arr) : mapped[i] # <<>>}
              IN  IF found = {} THEN <<>>
                  ELSE mapped[CHOOSE i \in found : \A j \in found : i <= j]
         ELSE IF TypeofObject(data) THEN ProcessApiResponse(data, md)
         ELSE <<>>
    ELSE <<>>

\* The body handling shared by findExactMatch and findByArtistAndTitle
FirstCandidate(data, md) ==
    IF DataTruthy(data)
    THEN IF data.shape = "array"
         THEN IF Len(data.arr) > 0 THEN ProcessApiResponse(data.arr[1], md) ELSE <<>>
         ELSE IF TypeofObject(data) THEN ProcessApiResponse(data, md)
         ELSE <<>>
    ELSE <<>>

\* Variant of findExactMatch that swallows the error and reports no match.
FindExactMatchSwallowsError(md, resp) ==
    IF resp.ok THEN Return(FirstCandidate(resp.data, md)) ELSE Return(<<>>)

\* Variant of findExactMatch that reads the body without testing it for null.
FindExactMatchNoNullCheck(md, resp) ==
    IF ~resp.ok THEN Throw(resp.error)
    ELSE IF ~DataTruthy(resp.data) \/ NumKeys(resp.data) = 0
    THEN Throw(TypeError("Cannot read properties of null (reading 'length')"))
    ELSE Return(FirstCandidate(resp.data, md))

\* findExactMatch once the transport has answered: an error is rethrown as is.
FindExactMatch(md, resp) ==
    IF resp.ok THEN Return(FirstCandidate(resp.data, md)) ELSE Throw(resp.error)

\* Variant of findByArtistAndTitle that swallows the error and reports no match.
FindByArtistAndTitleSwallowsError(md, resp) ==
    IF resp.ok THEN Return(FirstCandidate(resp.data, md)) ELSE Return(<<>>)

\* findByArtistAndTitle once the transport has answered: an error is wrapped.
FindByArtistAndTitle(md, resp) ==
    IF resp.ok THEN Return(FirstCandidate(resp.data, md))
    ELSE Throw(LyricsFetchError(md.artist, md.title, resp.error.message))

\* The body handling of findByTitleOnly (the inner try block)
TitleOnlyCandidate(data, md) ==
    IF DataTruthy(data)
    THEN IF data.shape = "array"
         THEN IF Len(data.arr) > 0
              THEN LET bestMatch == FindBestMatch(data.arr, md)
                   IN  IF bestMatch.threw THEN bestMatch
                       ELSE IF DataTruthy(bestMatch.value)
                       THEN Return(ProcessApiResponse(bestMatch.value, md))
                       ELSE Return(<<>>)
              ELSE Return(<<>>)
         ELSE IF TypeofObject(data) THEN Return(ProcessApiResponse(data, md))
         ELSE Return(<<>>)
    ELSE Return(<<>>)

\* findByTitleOnly once the transport has answered: every error is wrapped.
FindByTitleOnly(md, resp) ==
    LET inner == IF resp.ok THEN TitleOnlyCandidate(resp.data, md) ELSE Throw(resp.error)
    IN  IF inner.threw
        THEN Throw(LyricsFetchError(md.artist, md.title, inner.error.message))
        ELSE inner

-----------------------------------------------------------------------------
\* Inputs of the model.

\* The longest array body the transport returns.
MaxArrayLen == 2

Lrc == Str(<<"l", "r", "c">>)
Txt == Str(<<"t", "x", "t">>)

\* TrackMetadata values: complete, without album and duration, with an empty artist.
Metadatas ==
    { [artist |-> <<"A", "b">>, title |-> <<"T">>, album |-> Str(<<"L">>), duration |-> Num(215)],
      [artist |-> <<"A", "b">>, title |-> <<"T">>, album |-> Undefined, duration |-> Undefined],
      [artist |-> <<>>, title |-> <<"T">>, album |-> Undefined, duration |-> Num(0)] }

\* LyricSearchOptions | undefined: options omitted, or each field omitted, true or false.
OptionsValues ==
    { [given |-> FALSE, preferSynced |-> Undefined, allowTitleOnlySearch |-> Undefined] }
    \cup [given : {TRUE},
          preferSynced : {Undefined, Bool(TRUE), Bool(FALSE)},
          allowTitleOnlySearch : {Undefined, Bool(TRUE), Bool(FALSE)}]

\* Raw candidates of the lookup service, well formed and anomalous.
SyncedCandidate ==
    [EmptyObject EXCEPT !["artistName"] = Str(<<"T", "a", "B">>), !["trackName"] = Str(<<"T">>),
                        !["syncedLyrics"] = Lrc, !["plainLyrics"] = Txt,
                        !["instrumental"] = Bool(FALSE)]
PlainCandidate ==
    [EmptyObject EXCEPT !["artistName"] = Str(<<"b", "a">>), !["plainLyrics"] = Txt,
                        !["instrumental"] = Bool(FALSE)]
InstrumentalCandidate ==
    [EmptyObject EXCEPT !["artistName"] = Str(<<"B">>), !["artist_name"] = Str(<<"T">>),
                        !["trackName"] = Str(<<"T">>), !["track_name"] = Str(<<"t">>),
                        !["instrumental"] = Bool(TRUE)]
SnakeCandidate ==
    [EmptyObject EXCEPT !["artist_name"] = Str(<<"b", "a">>),
                        !["artist"] = Str(<<"T">>), !["title"] = Str(<<"t">>),
                        !["album_name"] = Str(<<"l">>), !["album"] = Str(<<"L">>),
                        !["syncedLyrics"] = Null, !["synced_lyrics"] = Lrc, !["lrc"] = Txt,
                        !["plain_lyrics"] = Str(<<>>), !["text"] = Txt]
ContentlessCandidate ==
    [EmptyObject EXCEPT !["id"] = Num(1), !["artistName"] = Str(<<"A", "b">>),
                        !["syncedLyrics"] = Null, !["plainLyrics"] = Str(<<>>),
                        !["instrumental"] = Bool(FALSE)]
NumericArtistCandidate ==
    [EmptyObject EXCEPT !["artistName"] = Num(5), !["plainLyrics"] = Txt]

Elements ==
    { Object(SyncedCandidate), Object(PlainCandidate), Object(InstrumentalCandidate),
      Object(SnakeCandidate), Object(ContentlessCandidate), Object(NumericArtistCandidate),
      Object(EmptyObject), Scalar(Null) }

ArraysOfLen(n) == [1..n -> Elements]

\* Bodies of a 2xx response: null, an empty string, a non-object, one object, an array.
Bodies ==
    { Scalar(Null), Scalar(Str(<<>>)), Scalar(Num(7)) }
    \cup { e \in Elements : e.shape = "object" }
    \cup { Array(a) : a \in UNION { ArraysOfLen(n) : n \in 0..MaxArrayLen } }

\* Reasons of a transport failure: no connection, a non-2xx status.
FailureReasons == { "Network Error", "Request failed with status code 404" }

-----------------------------------------------------------------------------
\* Queries.  A parameter is <<>> when the query does not carry it, <<s>> when
\* it carries the string s.

\* new URLSearchParams of findExactMatch
ExactParams(md) ==
    [tier |-> 1,
     artist_name |-> <<md.artist>>,
     track_name |-> <<md.title>>,
     album_name |-> << JsOr(md.album, Str(<<>>)).s >>,
     duration |-> << IF Nullish(md.duration) THEN <<>> ELSE NatToString(md.duration.n) >>]

\* Variant of the artist+title query that also carries the duration.
ArtistTitleParamsWithDuration(md) ==
    [tier |-> 2,
     artist_name |-> <<md.artist>>,
     track_name |-> <<md.title>>,
     album_name |-> <<>>,
     duration |-> << IF Nullish(md.duration) THEN <<>> ELSE NatToString(md.duration.n) >>]

\* new URLSearchParams of findByArtistAndTitle
ArtistTitleParams(md) ==
    [tier |-> 2,
     artist_name |-> <<md.artist>>,
     track_name |-> <<md.title>>,
     album_name |-> <<>>,
     duration |-> <<>>]

\* new URLSearchParams of findByTitleOnly
TitleOnlyParams(md) ==
    [tier |-> 3,
     artist_name |-> <<>>,
     track_name |-> <<md.title>>,
     album_name |-> <<>>,
     duration |-> <<>>]

-----------------------------------------------------------------------------
\* searchLyrics

\* Variant: options?.preferSynced === true
PreferSyncedOnlyWhenTrue(opts) ==
    LET v == IF opts.given THEN opts.preferSynced ELSE Undefined
    IN  v.t = "boolean" /\ v.n = 1

\* options?.preferSynced !== false
PreferSynced(opts) ==
    LET v == IF opts.given THEN opts.preferSynced ELSE Undefined
    IN  ~(v.t = "boolean" /\ v.n = 0)

\* Variant: options?.allowTitleOnlySearch !== false
AllowTitleOnlySearchByDefault(opts) ==
    LET v == IF opts.given THEN opts.allowTitleOnlySearch ELSE Undefined
    IN  ~(v.t = "boolean" /\ v.n = 0)

\* options?.allowTitleOnlySearch
AllowTitleOnlySearch(opts) ==
    Truthy(IF opts.given THEN opts.allowTitleOnlySearch ELSE Undefined)

\* Variant that keeps searching whatever preferSynced is.
KeepSearchingUnconditionally(preferSynced, match) ==
    ~Truthy(match.syncedLyrics) /\ ~match.instrumental

\* Variant that does not accept an instrumental match.
KeepSearchingIgnoresInstrumental(preferSynced, match) ==
    preferSynced /\ ~Truthy(match.syncedLyrics)

\* preferSynced && !match.syncedLyrics && !match.instrumental
KeepSearching(preferSynced, match) ==
    preferSynced /\ ~Truthy(match.syncedLyrics) /\ ~match.instrumental

\* Variant that prefers the match of the latest tier.
FallbackLatestFirst(exact, artistTitle, titleOnly) ==
    IF titleOnly # <<>> THEN titleOnly
    ELSE IF artistTitle # <<>> THEN artistTitle
    ELSE IF exact # <<>> THEN exact
    ELSE <<>>

\* The last-resort choice among the matches skipped earlier
Fallback(exact, artistTitle, titleOnly) ==
    IF exact # <<>> THEN exact
    ELSE IF artistTitle # <<>> THEN artistTitle
    ELSE IF titleOnly # <<>> THEN titleOnly
    ELSE <<>>

Pending == [kind |-> "pending", value |-> <<>>, error |-> NoError]
Returned(v) == [kind |-> "returned", value |-> v, error |-> NoError]
Raised(e) == [kind |-> "raised", value |-> <<>>, error |-> e]

\* The catch block of searchLyrics
Catch(md, e) == Raised(LyricsFetchError(md.artist, md.title, e.message))

\* The kind of an answer, as logged: a failure, one of the empty bodies, or other.
AnswerKind(resp) ==
    IF ~resp.ok THEN "failure"
    ELSE IF resp.data = Scalar(Null) THEN "null"
    ELSE IF resp.data = Array(<<>>) THEN "emptyArray"
    ELSE IF resp.data = Object(EmptyObject) THEN "emptyObject"
    ELSE "other"

Answered(resp) == Append(responded, [tier |-> requests[Len(requests)].tier, kind |-> AnswerKind(resp)])

\* The frame of the call in focus: its arguments, locals, position, query in
\* flight and outcome.
Frame ==
    [pc |-> pc, metadata |-> metadata, options |-> options,
     exactMatch |-> exactMatch, artistTitleMatch |-> artistTitleMatch,
     titleMatch |-> titleMatch, requests |-> requests, response |-> response,
     responded |-> responded, result |-> result]

\* The frame of a call that has not begun.
IdleFrame(md, opts) ==
    [pc |-> "idle", metadata |-> md, options |-> opts,
     exactMatch |-> <<>>, artistTitleMatch |-> <<>>, titleMatch |-> <<>>,
     requests |-> <<>>, response |-> <<>>, responded |-> <<>>, result |-> Pending]

\* The frames of all calls on the client.
Calls == DOMAIN parked \cup {focus}
FrameOf(c) == IF c = focus THEN Frame ELSE parked[c]

\* One call on a client that serves no other call.
SingleCall ==
    /\ focus = 1
    /\ parked = <<>>
    /\ stub = <<>>
    /\ after = {}

\* No fetcher has been created and no directory is processed.
NoDirectory ==
    /\ dpc = "none"
    /\ createOptions = <<>>
    /\ dirOptions = <<>>
    /\ mergedOptions = <<>>
    /\ directory = <<>>
    /\ lyricsFiles = <<>>
    /\ audioFiles = <<>>
    /\ loopIndex = Num(0)
    /\ batchNo = 0
    /\ running = <<>>
    /\ batchResults = <<>>
    /\ allResults = <<>>
    /\ processed = 0
    /\ progress = <<>>
    /\ calls = <<>>
    /\ clock = 0

Init ==
    /\ pc = "idle"
    /\ metadata \in Metadatas
    /\ options \in OptionsValues
    /\ exactMatch = <<>>
    /\ artistTitleMatch = <<>>
    /\ titleMatch = <<>>
    /\ requests = <<>>
    /\ response = <<>>
    /\ responded = <<>>
    /\ result = Pending
    /\ SingleCall
    /\ NoDirectory

\* Variant of the call that issues the first two queries at once.
SearchLyricsIssuesTwoQueries ==
    /\ pc = "idle"
    /\ pc' = "findExactMatch"
    /\ requests' = requests \o <<ExactParams(metadata), ArtistTitleParams(metadata)>>
    /\ UNCHANGED <<metadata, options, exactMatch, artistTitleMatch, titleMatch,
                   response, responded, result>>
    /\ UNCHANGED otherVars

\* Variant of the call on a client that remembers outcomes: a call whose
\* arguments equal those of a finished call returns that call's outcome.
SearchLyricsFromCache ==
    /\ pc = "idle"
    /\ LET same == {c \in DOMAIN parked : /\ parked[c].pc = "done"
                                          /\ parked[c].metadata = metadata
                                          /\ parked[c].options = options}
       IN  IF same # {}
           THEN /\ pc' = "done"
                /\ result' = parked[CHOOSE c \in same : TRUE].result
                /\ UNCHANGED requests
           ELSE /\ pc' = "findExactMatch"
                /\ requests' = Append(requests, ExactParams(metadata))
                /\ UNCHANGED result
    /\ UNCHANGED <<metadata, options, exactMatch, artistTitleMatch, titleMatch,
                   response, responded>>
    /\ UNCHANGED otherVars

\* searchLyrics(metadata, options) is called: it runs up to the first query.
SearchLyrics ==
    /\ pc = "idle"
    /\ pc' = "findExactMatch"
    /\ requests' = Append(requests, ExactParams(metadata))
    /\ UNCHANGED <<metadata, options, exactMatch, artistTitleMatch, titleMatch,
                   response, responded, result>>
    /\ UNCHANGED otherVars

Awaiting == pc \in {"findExactMatch", "findByArtistAndTitle", "findByTitleOnly"}

\* The transport answers the outstanding query with a 2xx response.
TransportResponds ==
    /\ Awaiting /\ response = <<>>
    /\ \E data \in Bodies :
          /\ response' = <<Ok(data)>>
          /\ responded' = Answered(Ok(data))
    /\ UNCHANGED <<pc, metadata, options, exactMatch, artistTitleMatch, titleMatch,
                   requests, result>>
    /\ UNCHANGED otherVars

\* The transport fails the outstanding query.
TransportFails ==
    /\ Awaiting /\ response = <<>>
    /\ \E msg \in FailureReasons :
          /\ response' = <<Fail(msg)>>
          /\ responded' = Answered(Fail(msg))
    /\ UNCHANGED <<pc, metadata, options, exactMatch, artistTitleMatch, titleMatch,
                   requests, result>>
    /\ UNCHANGED otherVars

\* Variant of the final part that raises when nothing was found.
FinishRaisesWhenNothingFound ==
    /\ pc' = "done"
    /\ result' = IF Fallback(exactMatch', artistTitleMatch', titleMatch') = <<>>
                 THEN Raised(LyricsFetchError(metadata.artist, metadata.title, <<"No lyrics found">>))
                 ELSE Returned(Fallback(exactMatch', artistTitleMatch', titleMatch'))
    /\ UNCHANGED requests

\* The final part of searchLyrics, after the last permitted tier
Finish ==
    /\ pc' = "done"
    /\ result' = Returned(Fallback(exactMatch', artistTitleMatch', titleMatch'))
    /\ UNCHANGED requests

\* searchLyrics resumes after findExactMatch.
ExactMatchSettled ==
    /\ pc = "findExactMatch" /\ response # <<>>
    /\ response' = <<>>
    /\ LET r == FindExactMatch(metadata, response[1])
       IN  IF r.threw
           THEN /\ pc' = "done"
                /\ result' = Catch(metadata, r.error)
                /\ UNCHANGED <<exactMatch, requests>>
           ELSE /\ exactMatch' = r.value
                /\ IF r.value # <<>> /\ ~KeepSearching(PreferSynced(options), r.value[1])
                   THEN /\ pc' = "done"
                        /\ result' = Returned(r.value)
                        /\ UNCHANGED requests
                   ELSE /\ pc' = "findByArtistAndTitle"
                        /\ requests' = Append(requests, ArtistTitleParams(metadata))
                        /\ UNCHANGED result
    /\ UNCHANGED <<metadata, options, artistTitleMatch, titleMatch, responded>>
    /\ UNCHANGED otherVars

\* searchLyrics resumes after findByArtistAndTitle.
ArtistTitleSettled ==
    /\ pc = "findByArtistAndTitle" /\ response # <<>>
    /\ response' = <<>>
    /\ UNCHANGED <<metadata, options, exactMatch, titleMatch, responded>>
    /\ UNCHANGED otherVars
    /\ LET r == FindByArtistAndTitle(metadata, response[1])
       IN  IF r.threw
           THEN /\ pc' = "done"
                /\ result' = Catch(metadata, r.error)
                /\ UNCHANGED <<artistTitleMatch, requests>>
           ELSE /\ artistTitleMatch' = r.value
                /\ IF r.value # <<>> /\ ~KeepSearching(PreferSynced(options), r.value[1])
                   THEN /\ pc' = "done"
                        /\ result' = Returned(r.value)
                        /\ UNCHANGED requests
                   ELSE IF AllowTitleOnlySearch(options)
                   THEN /\ pc' = "findByTitleOnly"
                        /\ requests' = Append(requests, TitleOnlyParams(metadata))
                        /\ UNCHANGED result
                   ELSE Finish

\* searchLyrics resumes after findByTitleOnly.
TitleOnlySettled ==
    /\ pc = "findByTitleOnly" /\ response # <<>>
    /\ response' = <<>>
    /\ UNCHANGED <<metadata, options, exactMatch, artistTitleMatch, responded>>
    /\ UNCHANGED otherVars
    /\ LET r == FindByTitleOnly(metadata, response[1])
       IN  IF r.threw
           THEN /\ pc' = "done"
                /\ result' = Catch(metadata, r.error)
                /\ UNCHANGED <<titleMatch, requests>>
           ELSE /\ titleMatch' = r.value
                /\ IF r.value # <<>> /\ ~KeepSearching(PreferSynced(options), r.value[1])
                   THEN /\ pc' = "done"
                        /\ result' = Returned(r.value)
                        /\ UNCHANGED requests
                   ELSE Finish

Next ==
    \/ SearchLyrics
    \/ TransportResponds
    \/ TransportFails
    \/ ExactMatchSettled
    \/ ArtistTitleSettled
    \/ TitleOnlySettled

Spec == Init /\ [][Next]_vars

-----------------------------------------------------------------------------
\* Several searchLyrics calls on one client.  A call runs from one await to
\* the next without interruption; while it waits, another call may run.  The
\* transport is deterministic: the same query gets the same answer.

MaxCalls == 2

ClientMetadata ==
    [artist |-> <<"A", "b">>, title |-> <<"T">>, album |-> Str(<<"L">>), duration |-> Num(215)]

ClientOptions ==
    { [given |-> FALSE, preferSynced |-> Undefined, allowTitleOnlySearch |-> Undefined],
      [given |-> TRUE, preferSynced |-> Undefined, allowTitleOnlySearch |-> Bool(TRUE)] }

DeterministicAnswers ==
    { Ok(Scalar(Null)), Ok(Object(PlainCandidate)), Fail("Network Error") }

InitClient ==
    /\ pc = "idle"
    /\ metadata = ClientMetadata
    /\ options \in ClientOptions
    /\ exactMatch = <<>>
    /\ artistTitleMatch = <<>>
    /\ titleMatch = <<>>
    /\ requests = <<>>
    /\ response = <<>>
    /\ responded = <<>>
    /\ result = Pending
    /\ focus = 1
    /\ parked \in [2..MaxCalls -> {IdleFrame(ClientMetadata, o) : o \in ClientOptions}]
    /\ stub \in [1..3 -> DeterministicAnswers]
    /\ after = {}
    /\ NoDirectory

\* The transport answers the outstanding query of the call in focus.
TransportAnswers ==
    /\ Awaiting /\ response = <<>>
    /\ LET answer == stub[requests[Len(requests)].tier]
       IN  /\ response' = <<answer>>
           /\ responded' = Answered(answer)
    /\ UNCHANGED <<pc, metadata, options, exactMatch, artistTitleMatch, titleMatch,
                   requests, result>>
    /\ UNCHANGED <<clientVars, dirVars>>

\* Variant in which the three matches are fields of the client, shared by
\* its calls.
SharedLocals(frame) ==
    [exactMatch |-> exactMatch, artistTitleMatch |-> artistTitleMatch,
     titleMatch |-> titleMatch]

\* let exactMatch, artistTitleMatch, titleMatch: locals of one invocation
LocalsOf(frame) ==
    [exactMatch |-> frame.exactMatch, artistTitleMatch |-> frame.artistTitleMatch,
     titleMatch |-> frame.titleMatch]

\* The call in focus is suspended (at an await, before it began or after it
\* finished) and call c runs next.
Interleave(c) ==
    /\ c \in DOMAIN parked
    /\ pc' = parked[c].pc
    /\ metadata' = parked[c].metadata
    /\ options' = parked[c].options
    /\ exactMatch' = LocalsOf(parked[c]).exactMatch
    /\ artistTitleMatch' = LocalsOf(parked[c]).artistTitleMatch
    /\ titleMatch' = LocalsOf(parked[c]).titleMatch
    /\ requests' = parked[c].requests
    /\ response' = parked[c].response
    /\ responded' = parked[c].responded
    /\ result' = parked[c].result
    /\ focus' = c
    /\ parked' = [x \in (DOMAIN parked \ {c}) \cup {focus} |->
                     IF x = focus THEN Frame ELSE parked[x]]
    /\ after' = after \cup {p \in Calls \X Calls :
                                FrameOf(p[1]).pc = "done" /\ FrameOf(p[2]).pc = "idle"}
    /\ UNCHANGED <<stub, dirVars>>

NextClient ==
    \/ SearchLyrics
    \/ TransportAnswers
    \/ ExactMatchSettled
    \/ ArtistTitleSettled
    \/ TitleOnlySettled
    \/ \E c \in DOMAIN parked : Interleave(c)

SpecClient == InitClient /\ [][NextClient]_vars

-----------------------------------------------------------------------------
\* Two searchLyrics calls on one client with the same metadata and the same
\* answers: the first with its options omitted or its settings left
\* undefined, or with both settings away from their defaults; the others
\* with both settings written out at their defaults.

\* searchLyrics(metadata), searchLyrics(metadata, {}) and calls that leave
\* one of the two settings undefined and give the other its default.
OmittedOptions ==
    { [given |-> FALSE, preferSynced |-> Undefined, allowTitleOnlySearch |-> Undefined],
      [given |-> TRUE, preferSynced |-> Undefined, allowTitleOnlySearch |-> Undefined],
      [given |-> TRUE, preferSynced |-> Undefined, allowTitleOnlySearch |-> Bool(FALSE)],
      [given |-> TRUE, preferSynced |-> Bool(TRUE), allowTitleOnlySearch |-> Undefined] }

\* searchLyrics(metadata, {preferSynced: true, allowTitleOnlySearch: false})
ExplicitDefaults ==
    [given |-> TRUE, preferSynced |-> Bool(TRUE), allowTitleOnlySearch |-> Bool(FALSE)]

\* searchLyrics(metadata, {preferSynced: false, allowTitleOnlySearch: true})
OppositeOptions ==
    [given |-> TRUE, preferSynced |-> Bool(FALSE), allowTitleOnlySearch |-> Bool(TRUE)]

\* The answers to the queries: nothing, plain lyrics only, synced lyrics, a
\* failure.
DefaultsAnswers ==
    { Ok(Scalar(Null)), Ok(Object(PlainCandidate)), Ok(Object(SyncedCandidate)),
      Fail("Network Error") }

InitDefaults ==
    /\ pc = "idle"
    /\ metadata = ClientMetadata
    /\ options \in OmittedOptions \cup {OppositeOptions}
    /\ exactMatch = <<>>
    /\ artistTitleMatch = <<>>
    /\ titleMatch = <<>>
    /\ requests = <<>>
    /\ response = <<>>
    /\ responded = <<>>
    /\ result = Pending
    /\ focus = 1
    /\ parked = [c \in 2..MaxCalls |-> IdleFrame(ClientMetadata, ExplicitDefaults)]
    /\ stub \in [1..3 -> DefaultsAnswers]
    /\ after = {}
    /\ NoDirectory

SpecDefaults == InitDefaults /\ [][NextClient]_vars

-----------------------------------------------------------------------------
\* What searchLyrics(md, opts) gives when it runs alone and the transport
\* answers the query of tier i with answers[i]: the queries and the outcome.
\* The tier functions on the answers to their queries.
TierResults(md, answers) ==
    <<FindExactMatch(md, answers[1]), FindByArtistAndTitle(md, answers[2]),
      FindByTitleOnly(md, answers[3])>>

\* A tier's match ends the search: if (match && !keepSearching(match))
Enough(opts, r) == r.value # <<>> /\ ~KeepSearching(PreferSynced(opts), r.value[1])

\* The queries of the first n tiers.
Queries(md, n) == SubSeq(<<ExactParams(md), ArtistTitleParams(md), TitleOnlyParams(md)>>, 1, n)

\* The body of searchLyrics on the results r of the tier functions.
Decide(md, opts, r) ==
    IF r[1].threw THEN [requests |-> Queries(md, 1), result |-> Catch(md, r[1].error)]
    ELSE IF Enough(opts, r[1]) THEN [requests |-> Queries(md, 1), result |-> Returned(r[1].value)]
    ELSE IF r[2].threw THEN [requests |-> Queries(md, 2), result |-> Catch(md, r[2].error)]
    ELSE IF Enough(opts, r[2]) THEN [requests |-> Queries(md, 2), result |-> Returned(r[2].value)]
    ELSE IF ~AllowTitleOnlySearch(opts)
    THEN [requests |-> Queries(md, 2), result |-> Returned(Fallback(r[1].value, r[2].value, <<>>))]
    ELSE IF r[3].threw THEN [requests |-> Queries(md, 3), result |-> Catch(md, r[3].error)]
    ELSE IF Enough(opts, r[3]) THEN [requests |-> Queries(md, 3), result |-> Returned(r[3].value)]
    ELSE [requests |-> Queries(md, 3),
          result |-> Returned(Fallback(r[1].value, r[2].value, r[3].value))]

Alone(md, opts, answers) == Decide(md, opts, TierResults(md, answers))

-----------------------------------------------------------------------------
\* The orchestrator: createLyricsFetcher, processDirectory, processAudioFile
\* (src/src/index.ts, src/src/orchestrator/index.ts), the scanner and the
\* lyrics file writer.  The processAudioFile calls of one batch are processes
\* that run from one await to the next; the metadata extractor, the transport
\* and the file system are the environment that settles each await.

MaxFiles == 2

\* The batch loop is followed for at most this many iterations; a run over
\* MaxFiles files with a positive batch size needs MaxFiles of them.
MaxBatches == MaxFiles + 1

\* The clock is followed up to this many milliseconds.
MaxClock == 1

\* An audio file: its place in the directory listing and its path without the
\* extension, which it shares with its lyrics files.
AudioFile(k, base) == [id |-> k, base |-> base]

\* The listings of a directory: up to MaxFiles audio files with different
\* base names, or with the second file a twin of the first (a.mp3, a.flac).
Listings ==
    { [k \in 1..n |-> AudioFile(k, IF twins /\ k = 2 THEN 1 ELSE k)] :
          n \in 0..MaxFiles, twins \in BOOLEAN }

\* The content of a lyrics file that exists before the run.
OldLyrics == Str(<<"o", "l", "d">>)

\* Partial<OrchestratorOptions>: a setting is <<>> when absent, <<v>> when given.
NoSettings ==
    [allowTitleOnlySearch |-> <<>>, preferSynced |-> <<>>, skipExisting |-> <<>>,
     overwriteExisting |-> <<>>, size |-> <<>>, delayMs |-> <<>>, onProgress |-> <<>>]

\* The options the command line passes to createLyricsFetcher by default.
CliOptions ==
    [allowTitleOnlySearch |-> <<FALSE>>, preferSynced |-> <<TRUE>>, skipExisting |-> <<TRUE>>,
     overwriteExisting |-> <<FALSE>>, size |-> <<ParseInt(<<"5">>)>>,
     delayMs |-> <<ParseInt(<<"1", "0", "0", "0">>)>>, onProgress |-> <<>>]

\* Options that differ from every default.
CustomOptions ==
    [allowTitleOnlySearch |-> <<TRUE>>, preferSynced |-> <<FALSE>>, skipExisting |-> <<FALSE>>,
     overwriteExisting |-> <<TRUE>>, size |-> <<Num(1)>>, delayMs |-> <<Num(0)>>,
     onProgress |-> <<>>]

\* The options the command line passes to processDirectory.
OnProgressOnly == [NoSettings EXCEPT !.onProgress = <<TRUE>>]

\* --no-skip-existing without --overwrite, two files at a time.
NoSkipOptions == [OnProgressOnly EXCEPT !.skipExisting = <<FALSE>>, !.size = <<Num(2)>>]

\* A batch size as parseInt gives it for the text of --batch-size.
BatchSizeOptions(text) == [OnProgressOnly EXCEPT !.size = <<ParseInt(text)>>]

CreateOptionsPool == {NoSettings, CliOptions, CustomOptions}
DirOptionsPool ==
    { OnProgressOnly, CustomOptions, NoSkipOptions, BatchSizeOptions(<<"1">>),
      BatchSizeOptions(<<"0">>), BatchSizeOptions(<<"-", "1">>),
      BatchSizeOptions(<<"a", "b", "c">>) }

\* defaultOptions of processDirectory
DefaultOptions ==
    [allowTitleOnlySearch |-> FALSE, preferSynced |-> TRUE, skipExisting |-> TRUE,
     overwriteExisting |-> FALSE, size |-> Num(10), delayMs |-> Num(1000)]

\* mergedOptions of processDirectory: the defaults overlaid with its argument
MergeOptions(opts) ==
    LET Pick(given, default) == IF given = <<>> THEN default ELSE given[1]
    IN  [allowTitleOnlySearch |-> Pick(opts.allowTitleOnlySearch, DefaultOptions.allowTitleOnlySearch),
         preferSynced |-> Pick(opts.preferSynced, DefaultOptions.preferSynced),
         skipExisting |-> Pick(opts.skipExisting, DefaultOptions.skipExisting),
         overwriteExisting |-> Pick(opts.overwriteExisting, DefaultOptions.overwriteExisting),
         size |-> Pick(opts.size, DefaultOptions.size),
         delayMs |-> Pick(opts.delayMs, DefaultOptions.delayMs),
         onProgress |-> opts.onProgress # <<>>]

\* The path of the lyrics file of an audio file with the given extension.
LyricsPath(file, ext) == <<file.base, ext>>

\* Variant of lyricsFileExists that looks for the .lrc file only.
LyricsFileExistsLrcOnly(file, fs) == LyricsPath(file, "lrc") \in DOMAIN fs

\* fs.existsSync(lrcPath) || fs.existsSync(txtPath)
LyricsFileExists(file, fs) ==
    LyricsPath(file, "lrc") \in DOMAIN fs \/ LyricsPath(file, "txt") \in DOMAIN fs

\* scanDirectory(directory, scanOptions)
ScanDirectory(dir, fs, skipExisting) ==
    SelectSeq(dir, LAMBDA file : ~(skipExisting /\ LyricsFileExists(file, fs)))

\* Variant of unlink that leaves the file in place.
UnlinkKeepsFile(fs, path) == fs

\* fs.promises.writeFile(path, content) and fs.promises.unlink(path)
WriteFile(fs, path, content) ==
    [p \in DOMAIN fs \cup {path} |-> IF p = path THEN content ELSE fs[p]]
Unlink(fs, path) == [p \in DOMAIN fs \ {path} |-> fs[p]]

\* The outcomes of extractMetadata for one file, and the metadata it gives.
Extractions == {"ok", "null", "throws", "noArtist", "noTitle"}

ExtractedMetadata(x) ==
    CASE x = "ok" -> <<ClientMetadata>>
      [] x = "noArtist" -> <<[ClientMetadata EXCEPT !.artist = <<>>]>>
      [] x = "noTitle" -> <<[ClientMetadata EXCEPT !.title = <<>>]>>
      [] OTHER -> <<>>

\* { artist: '', title: '', filepath: filePath }
BlankMetadata == [artist |-> <<>>, title |-> <<>>, album |-> Undefined, duration |-> Undefined]

\* The answers the transport gives to the queries of one file (the same to
\* every tier): nothing, synced and plain lyrics, plain lyrics only, an
\* instrumental track, a failure.
FileAnswers ==
    { Ok(Scalar(Null)), Ok(Object(SyncedCandidate)), Ok(Object(PlainCandidate)),
      Ok(Object(InstrumentalCandidate)), Fail("Network Error") }

\* The options processAudioFile passes to searchLyrics
SearchOptions(opts) ==
    [given |-> TRUE, preferSynced |-> Bool(opts.preferSynced),
     allowTitleOnlySearch |-> Bool(opts.allowTitleOnlySearch)]

\* The metadata with which processAudioFile calls searchLyrics.
SearchedMetadata == {ClientMetadata}

\* searchLyrics(metadata, {...}) for each metadata, each pair of search
\* settings and each answer the transport gives to every query of the call.
Lookups ==
    [md \in SearchedMetadata, preferSynced \in BOOLEAN, allowTitleOnly \in BOOLEAN,
     a \in FileAnswers |->
        Alone(md, SearchOptions([preferSynced |-> preferSynced,
                                 allowTitleOnlySearch |-> allowTitleOnly]),
              [i \in 1..3 |-> a])]

\* searchLyrics(metadata, {...}) of one file, whose every query gets answer a
Lookup(md, opts, a) == Lookups[md, opts.preferSynced, opts.allowTitleOnlySearch, a]

\* '[00:00.00]Instrumental\n'
InstrumentalMarker == Str(<<"[00:00.00]Instrumental">>)

\* Variant of writeLyrics that prefers the plain lyrics.
WriteLyricsPlainFirst(file, lyrics) ==
    IF Truthy(lyrics.plainLyrics)
    THEN <<[path |-> LyricsPath(file, "txt"), content |-> lyrics.plainLyrics]>>
    ELSE IF Truthy(lyrics.syncedLyrics)
    THEN <<[path |-> LyricsPath(file, "lrc"), content |-> lyrics.syncedLyrics]>>
    ELSE IF lyrics.instrumental
    THEN <<[path |-> LyricsPath(file, "lrc"), content |-> InstrumentalMarker]>>
    ELSE <<>>

\* Variant of writeLyrics without the branch for instrumental tracks.
WriteLyricsTextOnly(file, lyrics) ==
    IF Truthy(lyrics.syncedLyrics)
    THEN <<[path |-> LyricsPath(file, "lrc"), content |-> lyrics.syncedLyrics]>>
    ELSE IF Truthy(lyrics.plainLyrics)
    THEN <<[path |-> LyricsPath(file, "txt"), content |-> lyrics.plainLyrics]>>
    ELSE <<>>

\* writeLyrics(audioFilePath, lyrics) for a LyricResult: the file it writes
\* and the content, <<>> when it writes nothing and returns undefined.
WriteLyrics(file, lyrics) ==
    IF Truthy(lyrics.syncedLyrics)
    THEN <<[path |-> LyricsPath(file, "lrc"), content |-> lyrics.syncedLyrics]>>
    ELSE IF Truthy(lyrics.plainLyrics)
    THEN <<[path |-> LyricsPath(file, "txt"), content |-> lyrics.plainLyrics]>>
    ELSE IF lyrics.instrumental
    THEN <<[path |-> LyricsPath(file, "lrc"), content |-> InstrumentalMarker]>>
    ELSE <<>>

ProcessResult(file, md, success, lyricPath, error) ==
    [filePath |-> file, metadata |-> md, success |-> success, lyricPath |-> lyricPath,
     error |-> error]

\* The frame of one processAudioFile call: its position, the outcome of its
\* extractMetadata, the transport's answer to its queries, the number of
\* queries issued, the lyrics found and the error caught.
FileFrame(position) ==
    [pc |-> position, extract |-> "", answer |-> <<>>, issued |-> 0, lyrics |-> <<>>,
     error |-> <<>>]

\* A call made on the environment by one processAudioFile call.
Call(op, tier, path) == [op |-> op, tier |-> tier, path |-> path, at |-> clock]

\* Variant of the skip check that looks at skipExisting only.
ShouldSkipIgnoresOverwrite(file, opts, fs) ==
    opts.skipExisting /\ LyricsFileExists(file, fs)

\* options.file.skipExisting && !options.file.overwriteExisting
\*     && this.fileWriter.lyricsFileExists(filePath)
ShouldSkip(file, opts, fs) ==
    opts.skipExisting /\ ~opts.overwriteExisting /\ LyricsFileExists(file, fs)

\* processAudioFile(filePath, options) up to its first await: the call
\* returns the result of a skipped file or calls extractMetadata.
StartFile(file, opts, fs) ==
    IF ShouldSkip(file, opts, fs)
    THEN [frame |-> FileFrame("done"),
          promise |-> <<ProcessResult(file, BlankMetadata, TRUE, <<>>, <<>>)>>,
          calls |-> <<>>]
    ELSE [frame |-> FileFrame("extractMetadata"), promise |-> <<>>,
          calls |-> <<Call("extractMetadata", 0, <<>>)>>]

\* Variant of the catch block that rethrows the error.
CaughtRethrows(frame, error) == [frame EXCEPT !.pc = "rejected", !.error = <<error>>]

\* catch (error): the error is kept for the result and extractMetadata is
\* called again.
Caught(frame, error) == [frame EXCEPT !.pc = "catch", !.error = <<error>>]

\* Variant of the test of the metadata that asks for a title only.
SufficientTitleOnly(md) == md # <<>> /\ md[1].title # <<>>

\* The tests of the extracted metadata: !metadata, !metadata.artist || !metadata.title
Sufficient(md) == md # <<>> /\ md[1].artist # <<>> /\ md[1].title # <<>>

\* Variant of the batch that takes every remaining file.
BatchIndicesToTheEnd(len, start, size) ==
    {j \in 1..len : RelativeIndex(start, len) < j}

\* The indices (from 1) of audioFiles.slice(start, start + size)
BatchIndices(len, start, size) == SliceIndices(len, start, JsAdd(start, size))

\* Variant of the loop step that advances by one file.
NextIndexByOne(index, size) == JsAdd(index, Num(1))

\* i += mergedOptions.batch.size
NextIndex(index, size) == JsAdd(index, size)

\* The calls of one batch, each run to its first await: batch.map(filePath =>
\* this.processAudioFile(filePath, mergedOptions))
Batch(files, start, opts, fs) ==
    [k \in BatchIndices(Len(files), start, opts.size) |-> StartFile(files[k], opts, fs)]

InitDir ==
    /\ pc = "idle"
    /\ metadata = ClientMetadata
    /\ options = [given |-> FALSE, preferSynced |-> Undefined, allowTitleOnlySearch |-> Undefined]
    /\ exactMatch = <<>>
    /\ artistTitleMatch = <<>>
    /\ titleMatch = <<>>
    /\ requests = <<>>
    /\ response = <<>>
    /\ responded = <<>>
    /\ result = Pending
    /\ SingleCall
    /\ dpc = "new"
    /\ createOptions = <<>>
    /\ dirOptions = <<>>
    /\ mergedOptions = <<>>
    /\ directory \in Listings
    /\ \E existing \in SUBSET ({<<1, "lrc">>, <<2, "txt">>}
                                \cap ({directory[k].base : k \in 1..Len(directory)}
                                        \X {"lrc", "txt"})) :
          lyricsFiles = [p \in existing |-> OldLyrics]
    /\ audioFiles = <<>>
    /\ loopIndex = Num(0)
    /\ batchNo = 0
    /\ running = <<>>
    /\ batchResults = <<>>
    /\ allResults = <<>>
    /\ processed = 0
    /\ progress = <<>>
    /\ calls = <<>>
    /\ clock = 0

\* createLyricsFetcher(options): new LyricsFetcherOrchestrator(options), whose
\* constructor reads options.logging only.
CreateLyricsFetcher ==
    /\ dpc = "new"
    /\ dpc' = "created"
    /\ \E o \in CreateOptionsPool : createOptions' = o
    /\ UNCHANGED <<dirOptions, mergedOptions, directory, lyricsFiles, audioFiles, loopIndex,
                   batchNo, running, batchResults, allResults, processed, progress, calls,
                   clock>>
    /\ UNCHANGED <<callVars, clientVars>>

\* fetcher.processDirectory(directory, options) up to its first batch.
ProcessDirectory ==
    /\ dpc = "created"
    /\ \E o \in DirOptionsPool :
          LET merged == MergeOptions(o)
              files == ScanDirectory(directory, lyricsFiles, merged.skipExisting)
              idle == [k \in 1..Len(files) |-> <<>>]
          IN  /\ dirOptions' = o
              /\ mergedOptions' = merged
              /\ audioFiles' = files
              /\ IF JsLess(Num(0), Num(Len(files)))
                 THEN LET batch == Batch(files, Num(0), merged, lyricsFiles)
                      IN  /\ dpc' = "batch"
                          /\ batchNo' = 1
                          /\ running' = [k \in DOMAIN batch |-> batch[k].frame]
                          /\ batchResults' = [k \in DOMAIN batch |-> batch[k].promise]
                          /\ calls' = [k \in 1..Len(files) |->
                                          IF k \in DOMAIN batch THEN batch[k].calls ELSE <<>>]
                 ELSE /\ dpc' = "returned"
                      /\ batchNo' = 0
                      /\ running' = <<>>
                      /\ batchResults' = <<>>
                      /\ calls' = idle
    /\ allResults' = <<>>
    /\ processed' = 0
    /\ loopIndex' = Num(0)
    /\ UNCHANGED <<createOptions, directory, lyricsFiles, progress, clock>>
    /\ UNCHANGED <<callVars, clientVars>>

\* One step of the processAudioFile call of audioFiles[k]: its frame and its
\* promise after the step, the file system, the calls it made on the
\* environment and whether it called onProgress(0, 0, result).
FileStep(k, frame, promise, fs, made, reported) ==
    /\ running' = [running EXCEPT ![k] = frame]
    /\ batchResults' = [batchResults EXCEPT ![k] = promise]
    /\ lyricsFiles' = fs
    /\ calls' = [calls EXCEPT ![k] = calls[k] \o made]
    /\ progress' = IF reported /\ mergedOptions.onProgress
                   THEN Append(progress, [current |-> 0, total |-> 0, file |-> <<k>>])
                   ELSE progress
    /\ dpc' = IF frame.pc = "rejected" THEN "rejected" ELSE dpc
    /\ UNCHANGED <<createOptions, dirOptions, mergedOptions, directory, audioFiles, loopIndex,
                   batchNo, allResults, processed, clock>>
    /\ UNCHANGED <<callVars, clientVars>>

\* The call, in the given frame, enters its catch block with the given error.
FileCatches(k, frame, error) ==
    LET caught == Caught(frame, error)
    IN  FileStep(k, caught, <<>>, lyricsFiles,
                 IF caught.pc = "catch" THEN <<Call("extractMetadata", 0, <<>>)>> ELSE <<>>,
                 FALSE)

\* writeLyrics(filePath, lyrics) up to its writeFile, on the file system fs;
\* when it has nothing to write the call reports and returns a result
\* without a lyricPath.
FileWrites(k, lyrics, fs) ==
    LET file == audioFiles[k]
        frame == [running[k] EXCEPT !.lyrics = <<lyrics>>]
        md == ExtractedMetadata(frame.extract)[1]
        out == WriteLyrics(file, lyrics)
    IN  IF out = <<>>
        THEN FileStep(k, [frame EXCEPT !.pc = "done"],
                      <<ProcessResult(file, md, FALSE, <<>>, <<>>)>>, fs, <<>>, TRUE)
        ELSE FileStep(k, [frame EXCEPT !.pc = "writeFile"], <<>>, fs,
                      <<Call("writeFile", 0, <<out[1].path>>)>>, FALSE)

\* deleteExistingLyrics from the existsSync of the given extensions on, on
\* the file system fs: it unlinks the first file that exists, or returns and
\* writeLyrics begins.
FileDeletes(k, lyrics, exts, fs) ==
    LET file == audioFiles[k]
        found == SelectSeq(exts, LAMBDA e : LyricsPath(file, e) \in DOMAIN fs)
    IN  IF found = <<>> THEN FileWrites(k, lyrics, fs)
        ELSE FileStep(k, [running[k] EXCEPT !.pc = found[1], !.lyrics = <<lyrics>>], <<>>,
                      fs, <<Call("unlink", 0, <<LyricsPath(file, found[1])>>)>>, FALSE)

\* await extractMetadata(filePath) of the try block settles: the call tests
\* the metadata and calls searchLyrics, which issues its first query.
MetadataExtracted(k) ==
    /\ dpc = "batch" /\ k \in DOMAIN running /\ running[k].pc = "extractMetadata"
    /\ \E x \in Extractions :
          LET md == ExtractedMetadata(x)
              frame == [running[k] EXCEPT !.extract = x]
          IN  IF x = "throws" THEN FileCatches(k, frame, "extractMetadata failed")
              ELSE IF md = <<>> THEN FileCatches(k, frame, "MetadataExtractionError")
              ELSE IF ~Sufficient(md)
              THEN FileCatches(k, frame, "Insufficient metadata to search for lyrics")
              ELSE \E a \in FileAnswers :
                      FileStep(k, [frame EXCEPT !.pc = "searchLyrics", !.answer = <<a>>,
                                                !.issued = 1],
                               <<>>, lyricsFiles, <<Call("get", 1, <<>>)>>, FALSE)

\* The transport answers the outstanding query of the searchLyrics call of
\* audioFiles[k]: the call issues its next query or settles, and
\* processAudioFile goes on to the result, the delete and the write.
QueryAnswered(k) ==
    /\ dpc = "batch" /\ k \in DOMAIN running /\ running[k].pc = "searchLyrics"
    /\ LET frame == running[k]
           file == audioFiles[k]
           md == ExtractedMetadata(frame.extract)[1]
           lookup == Lookup(md, mergedOptions, frame.answer[1])
       IN  IF frame.issued < Len(lookup.requests)
           THEN FileStep(k, [frame EXCEPT !.issued = frame.issued + 1], <<>>, lyricsFiles,
                         <<Call("get", frame.issued + 1, <<>>)>>, FALSE)
           ELSE IF lookup.result.kind = "raised" THEN FileCatches(k, frame, "LyricsFetchError")
           ELSE IF lookup.result.value = <<>>
           THEN FileStep(k, [frame EXCEPT !.pc = "done"],
                         <<ProcessResult(file, md, FALSE, <<>>, <<"No lyrics found">>)>>,
                         lyricsFiles, <<>>, FALSE)
           ELSE IF mergedOptions.overwriteExisting
           THEN FileDeletes(k, lookup.result.value[1], <<"lrc", "txt">>, lyricsFiles)
           ELSE FileWrites(k, lookup.result.value[1], lyricsFiles)

\* await fs.promises.unlink(path) of deleteExistingLyrics settles: the file
\* is removed and deleteExistingLyrics goes on with the extensions left;
\* unlink fails when the file is no longer there.
UnlinkSettled(k) ==
    /\ dpc = "batch" /\ k \in DOMAIN running /\ running[k].pc \in {"lrc", "txt"}
    /\ LET frame == running[k]
           path == LyricsPath(audioFiles[k], frame.pc)
       IN  IF path \notin DOMAIN lyricsFiles THEN FileCatches(k, frame, "ENOENT")
           ELSE FileDeletes(k, frame.lyrics[1], IF frame.pc = "lrc" THEN <<"txt">> ELSE <<>>,
                            Unlink(lyricsFiles, path))

\* await fs.promises.writeFile(path, content) of writeLyrics settles: the
\* file is written and the call reports and returns its result, or the write
\* fails.
WriteFileSettled(k) ==
    /\ dpc = "batch" /\ k \in DOMAIN running /\ running[k].pc = "writeFile"
    /\ LET frame == running[k]
           file == audioFiles[k]
           out == WriteLyrics(file, frame.lyrics[1])[1]
           md == ExtractedMetadata(frame.extract)[1]
       IN  \/ FileStep(k, [frame EXCEPT !.pc = "done"],
                       <<ProcessResult(file, md, TRUE, <<out.path>>, <<>>)>>,
                       WriteFile(lyricsFiles, out.path, out.content), <<>>, TRUE)
           \/ FileCatches(k, frame, "writeFile failed")

\* await extractMetadata(filePath) of the catch block settles: the call
\* reports and returns the failure.
CatchSettled(k) ==
    /\ dpc = "batch" /\ k \in DOMAIN running /\ running[k].pc = "catch"
    /\ LET frame == running[k]
           again == ExtractedMetadata(frame.extract)
           md == IF again = <<>> THEN BlankMetadata ELSE again[1]
       IN  FileStep(k, [frame EXCEPT !.pc = "done"],
                    <<ProcessResult(audioFiles[k], md, FALSE, <<>>, frame.error)>>,
                    lyricsFiles, <<>>, TRUE)

\* Promise.all of the batch resolves: the rest of the loop body, and the next
\* iteration up to its await or the return.
BatchDone ==
    /\ dpc = "batch"
    /\ batchNo < MaxBatches
    /\ \A k \in DOMAIN batchResults : batchResults[k] # <<>>
    /\ LET n == Cardinality(DOMAIN batchResults)
           first == RelativeIndex(loopIndex, Len(audioFiles))
           next == NextIndex(loopIndex, mergedOptions.size)
       IN  /\ allResults' = allResults \o [j \in 1..n |-> batchResults[first + j][1]]
           /\ processed' = processed + n
           /\ progress' = IF mergedOptions.onProgress
                          THEN Append(progress, [current |-> processed + n,
                                                 total |-> Len(audioFiles), file |-> <<>>])
                          ELSE progress
           /\ loopIndex' = next
           /\ IF JsLess(next, Num(Len(audioFiles)))
              THEN LET batch == Batch(audioFiles, next, mergedOptions, lyricsFiles)
                   IN  /\ UNCHANGED dpc
                       /\ batchNo' = batchNo + 1
                       /\ running' = [k \in DOMAIN batch |-> batch[k].frame]
                       /\ batchResults' = [k \in DOMAIN batch |-> batch[k].promise]
                       /\ calls' = [k \in DOMAIN calls |->
                                       IF k \in DOMAIN batch THEN calls[k] \o batch[k].calls
                                       ELSE calls[k]]
              ELSE /\ dpc' = "returned"
                   /\ running' = <<>>
                   /\ batchResults' = <<>>
                   /\ UNCHANGED <<batchNo, calls>>
    /\ UNCHANGED <<createOptions, dirOptions, mergedOptions, directory, lyricsFiles,
                   audioFiles, clock>>
    /\ UNCHANGED <<callVars, clientVars>>

NextDir ==
    \/ CreateLyricsFetcher
    \/ ProcessDirectory
    \/ \E k \in 1..MaxFiles : MetadataExtracted(k)
    \/ \E k \in 1..MaxFiles : QueryAnswered(k)
    \/ \E k \in 1..MaxFiles : UnlinkSettled(k)
    \/ \E k \in 1..MaxFiles : WriteFileSettled(k)
    \/ \E k \in 1..MaxFiles : CatchSettled(k)
    \/ BatchDone

SpecDir == InitDir /\ [][NextDir]_vars

\* A millisecond passes while a directory is processed.
Tick ==
    /\ dpc = "batch"
    /\ clock < MaxClock
    /\ clock' = clock + 1
    /\ UNCHANGED <<dpc, createOptions, dirOptions, mergedOptions, directory, lyricsFiles,
                   audioFiles, loopIndex, batchNo, running, batchResults, allResults,
                   processed, progress, calls>>
    /\ UNCHANGED <<callVars, clientVars>>

NextTimed ==
    \/ NextDir
    \/ Tick

SpecTimed == InitDir /\ [][NextTimed]_vars

-----------------------------------------------------------------------------
\* Vocabulary of the properties.

\* A step that handles the transport's answer is a step taken with an answer
\* pending; the tier it handles is given by pc.
Handling == response # <<>>

HandledTier ==
    CASE pc = "findExactMatch" -> 1
      [] pc = "findByArtistAndTitle" -> 2
      [] pc = "findByTitleOnly" -> 3
      [] OTHER -> 0

\* What the tier function being awaited does with the pending answer.
TierOutcome ==
    CASE pc = "findExactMatch" -> FindExactMatch(metadata, response[1])
      [] pc = "findByArtistAndTitle" -> FindByArtistAndTitle(metadata, response[1])
      [] pc = "findByTitleOnly" -> FindByTitleOnly(metadata, response[1])

\* The options as the caller wrote them.
PreferSyncedIsFalse == options.given /\ options.preferSynced = Bool(FALSE)
TitleOnlyPermitted == options.given /\ options.allowTitleOnlySearch = Bool(TRUE)
PermittedTiers == IF TitleOnlyPermitted THEN 3 ELSE 2

\* A match with synced lyrics or the instrumental flag; a plain-only match.
Satisfying(m) == m # <<>> /\ (Truthy(m[1].syncedLyrics) \/ m[1].instrumental)
PlainOnly(m) == m # <<>> /\ ~Truthy(m[1].syncedLyrics) /\ ~m[1].instrumental

\* The candidate tiers 1 and 2 look at, and whether a raw candidate has content.
FirstOf(data) ==
    IF data.shape = "array"
    THEN IF Len(data.arr) > 0 THEN data.arr[1] ELSE Scalar(Undefined)
    ELSE data

RawHasContent(c) ==
    /\ c.shape = "object"
    /\ \/ \E i \in 1..3 : Truthy(c.obj[SyncedKeys[i]]) \/ Truthy(c.obj[PlainKeys[i]])
       \/ Truthy(c.obj["instrumental"])

-----------------------------------------------------------------------------
\* C1: the queries of one searchLyrics call are issued in the order
\* exact-signature, artist+title, title-only, each tier at most once; a query
\* is issued only when every earlier query has been answered; a finished call
\* has issued between 1 and 3 queries.
C1_QueriesInTierOrder ==
    /\ Len(requests) <= 3
    /\ \A i \in 1..Len(requests) : requests[i].tier = i
    /\ \A i \in 1..Len(responded) : responded[i].tier = i
    /\ Len(requests) - 1 <= Len(responded) /\ Len(responded) <= Len(requests)
    /\ pc = "done" => Len(requests) \in 1..3

C1_Witness == pc = "done" /\ Len(requests) = 3 /\ Len(responded) = 3

\* C2: with preferSynced=false and non-empty artist and title, the tier whose
\* answer yields a candidate with lyric content ends the call: that candidate
\* is returned in the same step and no further query is issued; for the
\* exact-signature tier this is so whenever the candidate it looks at has any
\* synced lyrics, plain lyrics or the instrumental flag.
C2_FirstContentReturned ==
    /\ [][ ( /\ Handling /\ PreferSyncedIsFalse
             /\ metadata.artist # <<>> /\ metadata.title # <<>>
             /\ ~TierOutcome.threw /\ TierOutcome.value # <<>> )
           => ( /\ pc' = "done"
                /\ result' = Returned(TierOutcome.value)
                /\ requests' = requests
                /\ Len(requests) = HandledTier ) ]_vars
    /\ [][ ( /\ Handling /\ PreferSyncedIsFalse /\ HandledTier \in {1, 2}
             /\ metadata.artist # <<>> /\ metadata.title # <<>>
             /\ response[1].ok /\ RawHasContent(FirstOf(response[1].data)) )
           => ( /\ pc' = "done"
                /\ result'.kind = "returned" /\ result'.value # <<>>
                /\ requests' = requests ) ]_vars

C2_Witness ==
    /\ pc = "done" /\ PreferSyncedIsFalse /\ metadata.artist # <<>>
    /\ result.kind = "returned" /\ PlainOnly(result.value)
    /\ exactMatch = <<>> /\ Len(requests) = 2 /\ TitleOnlyPermitted

\* C3: with preferSynced=true (or omitted), a tier's plain-only match is not
\* returned when a later tier is permitted: the next tier is queried; a match
\* with synced lyrics or the instrumental flag is returned by the tier that
\* found it, with no query after it, so the result is the match of the
\* earliest such tier.
C3_SyncedPreferred ==
    ~PreferSyncedIsFalse =>
        /\ Satisfying(exactMatch) =>
              pc = "done" /\ result = Returned(exactMatch) /\ Len(requests) = 1
        /\ Satisfying(artistTitleMatch) =>
              pc = "done" /\ result = Returned(artistTitleMatch) /\ Len(requests) = 2
        /\ Satisfying(titleMatch) =>
              pc = "done" /\ result = Returned(titleMatch) /\ Len(requests) = 3
        /\ PlainOnly(exactMatch) => Len(requests) >= 2
        /\ PlainOnly(artistTitleMatch) /\ TitleOnlyPermitted => Len(requests) = 3

C3_Witness ==
    /\ ~PreferSyncedIsFalse /\ PlainOnly(exactMatch) /\ Satisfying(artistTitleMatch)
    /\ result = Returned(artistTitleMatch) /\ Len(requests) = 2 /\ TitleOnlyPermitted

\* C4: with preferSynced=true (or omitted), a call that returns without any
\* tier having found a synced or instrumental match returns the match of the
\* earliest tier that recorded one (exact before artist+title before
\* title-only), and it has then queried every permitted tier.
C4_EarliestFallback ==
    ( /\ ~PreferSyncedIsFalse /\ pc = "done" /\ result.kind = "returned"
      /\ ~Satisfying(exactMatch) /\ ~Satisfying(artistTitleMatch) /\ ~Satisfying(titleMatch) )
    => /\ Len(requests) = PermittedTiers
       /\ exactMatch # <<>> => result.value = exactMatch
       /\ exactMatch = <<>> /\ artistTitleMatch # <<>> => result.value = artistTitleMatch
       /\ exactMatch = <<>> /\ artistTitleMatch = <<>> => result.value = titleMatch

C4_Witness ==
    /\ ~PreferSyncedIsFalse /\ pc = "done" /\ result.kind = "returned"
    /\ exactMatch = <<>> /\ PlainOnly(artistTitleMatch) /\ PlainOnly(titleMatch)
    /\ artistTitleMatch # titleMatch
    /\ result.value = artistTitleMatch /\ Len(requests) = 3

\* C5: when allowTitleOnlySearch is false or omitted, no title-only query is
\* ever issued and the call issues at most 2 queries.
C5_NoTitleOnlyUnlessAllowed ==
    ~TitleOnlyPermitted =>
        /\ Len(requests) <= 2
        /\ \A i \in 1..Len(requests) : requests[i].tier # 3
        /\ pc # "findByTitleOnly"

C5_Witness ==
    /\ ~TitleOnlyPermitted /\ pc = "done" /\ Len(requests) = 2
    /\ result = Returned(<<>>)

\* The tiers whose query the transport failed, and the tiers it answered with
\* a 2xx response whose body is null, [] or {}.
FailedTiers == {i \in 1..Len(responded) : responded[i].kind = "failure"}
EmptyBodyTiers ==
    {i \in 1..Len(responded) : responded[i].kind \in {"null", "emptyArray", "emptyObject"}}

\* The answer of tier i has been handled by searchLyrics.
Handled(i) == i < Len(responded) \/ (i = Len(responded) /\ ~Handling)

\* The result variable that holds the match of tier i.
MatchOfTier(i) ==
    CASE i = 1 -> exactMatch
      [] i = 2 -> artistTitleMatch
      [] i = 3 -> titleMatch

\* The earliest recorded match, exact before artist+title before title-only.
EarliestMatch ==
    IF exactMatch # <<>> THEN exactMatch
    ELSE IF artistTitleMatch # <<>> THEN artistTitleMatch
    ELSE titleMatch

\* C6: a transport failure (no connection or non-2xx) in any tier ends the
\* call with a raised LyricsFetchError; the failed query is the last one the
\* call issues: a failure in tier i means exactly i queries were issued, so no
\* later tier is attempted and the failed tier is not queried again.
C6_FailureAbortsCall ==
    \A i \in FailedTiers :
        /\ i = Len(responded) /\ Len(requests) = i
        /\ Cardinality({j \in 1..Len(requests) : requests[j].tier = i}) = 1
        /\ Handled(i) =>
              pc = "done" /\ result.kind = "raised" /\ result.error.name = "LyricsFetchError"

C6_Witness ==
    /\ pc = "done" /\ result.kind = "raised" /\ FailedTiers = {2}
    /\ Len(requests) = 2 /\ TitleOnlyPermitted

\* C7: with preferSynced=true (or omitted), a transport failure in a tier
\* after a plain-only fallback was recorded makes the call raise: the fallback
\* is not returned; a call never both raises an error and returns a result.
C7_NoFallbackOnFailure ==
    /\ ( /\ ~PreferSyncedIsFalse
         /\ (PlainOnly(exactMatch) \/ PlainOnly(artistTitleMatch))
         /\ \E i \in FailedTiers : Handled(i) )
       => result.kind = "raised" /\ result.value = <<>>
    /\ result.kind = "raised" => result.value = <<>> /\ result.error # NoError
    /\ result.kind = "returned" => result.error = NoError

C7_Witness ==
    /\ ~PreferSyncedIsFalse /\ PlainOnly(exactMatch) /\ FailedTiers = {2}
    /\ pc = "done" /\ result.kind = "raised" /\ result.value = <<>>

\* C8: whichever tier the transport failure occurs in, the error raised by
\* searchLyrics is LyricsFetchError(artist, title, reason) whose reason is the
\* message of the transport failure itself, in the same form for every tier.
C8_SameErrorFormInEveryTier ==
    [][ (Handling /\ ~response[1].ok)
        => result'.error =
              LyricsFetchError(metadata.artist, metadata.title, response[1].error.message) ]_vars

\* C9: when the last permitted tier completes with no candidate and no
\* earlier tier recorded one, searchLyrics returns null and does not raise;
\* a call that returned null has queried each permitted tier exactly once and
\* none of them failed or recorded a match.
C9_NotFoundAfterAllTiers ==
    /\ [][ ( /\ Handling /\ HandledTier = PermittedTiers
             /\ exactMatch = <<>> /\ artistTitleMatch = <<>>
             /\ ~TierOutcome.threw /\ TierOutcome.value = <<>> )
           => pc' = "done" /\ result' = Returned(<<>>) ]_vars
    /\ []( (pc = "done" /\ result = Returned(<<>>))
           => /\ Len(requests) = PermittedTiers /\ Len(responded) = PermittedTiers
              /\ \A i \in 1..PermittedTiers : requests[i].tier = i
              /\ FailedTiers = {}
              /\ exactMatch = <<>> /\ artistTitleMatch = <<>> /\ titleMatch = <<>> )

C9_Witness ==
    /\ pc = "done" /\ result = Returned(<<>>) /\ TitleOnlyPermitted
    /\ Len(requests) = 3 /\ responded[3].kind = "other"

\* C10: a 2xx answer whose body is null, [] or {} is no candidate for its
\* tier, in every tier: once handled, the tier has recorded no match, the call
\* has not raised, and it has gone on to the next permitted tier or, after the
\* last permitted tier, has returned the earliest recorded fallback or null.
C10_EmptyBodyIsNoCandidate ==
    \A i \in EmptyBodyTiers :
        Handled(i) =>
            /\ MatchOfTier(i) = <<>>
            /\ i < PermittedTiers => Len(requests) >= i + 1 /\ requests[i + 1].tier = i + 1
            /\ i = Len(responded) => result.kind # "raised"
            /\ i = PermittedTiers =>
                  pc = "done" /\ result = Returned(EarliestMatch) /\ Len(requests) = i

C10_Witness ==
    /\ pc = "done" /\ TitleOnlyPermitted /\ Len(responded) = 3
    /\ responded[1].kind = "null" /\ responded[2].kind = "emptyArray"
    /\ responded[3].kind = "emptyObject"
    /\ result = Returned(<<>>)

-----------------------------------------------------------------------------
\* C11: every LyricResult that searchLyrics returns, from whichever tier and
\* also as a fallback, has non-empty synced lyrics, non-empty plain lyrics or
\* the instrumental flag; a candidate without any of them is neither returned
\* nor recorded as the match of a tier.
HasContent(r) == Truthy(r.syncedLyrics) \/ Truthy(r.plainLyrics) \/ r.instrumental

C11_ReturnedResultHasContent ==
    /\ result.kind = "returned" /\ result.value # <<>> => HasContent(result.value[1])
    /\ \A m \in {exactMatch, artistTitleMatch, titleMatch} : m # <<>> => HasContent(m[1])
    /\ Handling /\ ~TierOutcome.threw /\ TierOutcome.value # <<>>
          => HasContent(TierOutcome.value[1])

\* A call that was answered a candidate without content in tier 1, recorded
\* no match for it and later returned a plain-lyrics fallback.
C11_Witness ==
    /\ pc = "done" /\ result.kind = "returned"
    /\ Len(responded) >= 2 /\ responded[1].kind = "other"
    /\ exactMatch = <<>>
    /\ PlainOnly(result.value)

-----------------------------------------------------------------------------
\* The artist of a raw candidate: the first non-empty value among the
\* accepted spellings of the artist field, the empty string when it has none.
ArtistFieldOf(c) ==
    LET present == {i \in 1..3 : Truthy(c.obj[ArtistKeys[i]])}
    IN  IF present = {} THEN <<>>
        ELSE c.obj[ArtistKeys[CHOOSE i \in present : \A j \in present : i <= j]].s

\* A candidate that is an object whose artist spellings are strings or absent.
StringArtist(c) ==
    /\ c.shape = "object"
    /\ \A i \in 1..3 : c.obj[ArtistKeys[i]].t \in {"undefined", "null", "string"}

\* Containment either way, ignoring case.
ArtistsAgree(a, b) ==
    Includes(ToLowerCase(a), ToLowerCase(b)) \/ Includes(ToLowerCase(b), ToLowerCase(a))

\* The first candidate in response order whose artist agrees with the query
\* artist, the first candidate when none does.
FirstAgreeing(arr, artist) ==
    LET agreeing == {i \in 1..Len(arr) : ArtistsAgree(ArtistFieldOf(arr[i]), artist)}
    IN  IF agreeing = {} THEN arr[1]
        ELSE arr[CHOOSE i \in agreeing : \A j \in agreeing : i <= j]

\* C12: in the title-only tier, for a non-empty array response whose
\* candidates are objects with string (or absent) artist fields, the candidate
\* the tier maps into its match is the first one in response order whose artist
\* field contains, or is contained by, the query artist ignoring case, and the
\* first candidate of the response when no candidate's artist does.
C12_FirstArtistMatchSelected ==
    ( /\ Handling /\ pc = "findByTitleOnly" /\ response[1].ok
      /\ response[1].data.shape = "array" /\ Len(response[1].data.arr) > 0
      /\ \A i \in 1..Len(response[1].data.arr) : StringArtist(response[1].data.arr[i]) )
    => /\ ~TierOutcome.threw
       /\ TierOutcome.value =
             ProcessApiResponse(FirstAgreeing(response[1].data.arr, metadata.artist), metadata)

\* What the tier function being awaited would do with the answer resp.
TierOutcomeOf(resp) ==
    CASE pc = "findExactMatch" -> FindExactMatch(metadata, resp)
      [] pc = "findByArtistAndTitle" -> FindByArtistAndTitle(metadata, resp)
      [] pc = "findByTitleOnly" -> FindByTitleOnly(metadata, resp)

\* C13: in every tier an answer whose body is a single object X is handled
\* as the answer whose body is the one-element array [X] would be: the tier
\* function gives the same outcome (the same LyricResult, or no candidate) for
\* both, hence the same continuation of the call.
C13_ObjectAsOneElementArray ==
    ( Handling /\ response[1].ok /\ response[1].data.shape = "object" )
    => TierOutcomeOf(Ok(Array(<<response[1].data>>))) = TierOutcome

\* C14: a call raises only when the transport failed: whatever the shape of
\* the candidates of the successful answers (fields missing or under another
\* spelling, empty objects, null elements, artist names that are absent or not
\* strings), handling them never throws and the call ends with a LyricResult
\* or null.
C14_AnomaliesNeverRaise ==
    /\ Handling /\ response[1].ok => ~TierOutcome.threw
    /\ result.kind = "raised" => FailedTiers # {}

\* The raw candidate that the tier being awaited hands to the mapping.
MappedCandidate ==
    IF pc = "findByTitleOnly" /\ response[1].data.shape = "array"
          /\ Len(response[1].data.arr) > 0
    THEN FindBestMatch(response[1].data.arr, metadata).value
    ELSE FirstOf(response[1].data)

\* The first non-empty value of candidate c under the spellings keys, in
\* their order; the fallback when c has none.
AliasValue(c, keys, fallback) ==
    LET present == {i \in 1..Len(keys) : Truthy(c.obj[keys[i]])}
    IN  IF present = {} THEN fallback
        ELSE c.obj[keys[CHOOSE i \in present : \A j \in present : i <= j]]

\* C15: a raw candidate mapped into a LyricResult gives each field the first
\* non-empty value in the order camelCase, snake_case, short name; artist,
\* title and album fall back to the query metadata (the album to the empty
\* string when the metadata has none), the lyric fields fall back to null.
C15_AliasOrder ==
    ( Handling /\ response[1].ok /\ ~TierOutcome.threw /\ TierOutcome.value # <<>> )
    => LET c == MappedCandidate
           r == TierOutcome.value[1]
       IN  /\ c.shape = "object"
           /\ r.artist = AliasValue(c, <<"artistName", "artist_name", "artist">>,
                                    Str(metadata.artist))
           /\ r.title = AliasValue(c, <<"trackName", "track_name", "title">>,
                                   Str(metadata.title))
           /\ r.album = AliasValue(c, <<"albumName", "album_name", "album">>,
                                   IF Truthy(metadata.album) THEN metadata.album
                                   ELSE Str(<<>>))
           /\ r.syncedLyrics = AliasValue(c, <<"syncedLyrics", "synced_lyrics", "lrc">>, Null)
           /\ r.plainLyrics = AliasValue(c, <<"plainLyrics", "plain_lyrics", "text">>, Null)

\* A returned result mapped from a candidate with two spellings of the artist
\* but no artistName, a null syncedLyrics and an empty plain_lyrics next to
\* their other spellings, and no title but the short one.
C15_Witness ==
    /\ pc = "done" /\ result.kind = "returned" /\ result.value # <<>>
    /\ result.value[1].artist = Str(<<"b", "a">>)
    /\ result.value[1].title = Str(<<"t">>)
    /\ result.value[1].album = Str(<<"l">>)
    /\ result.value[1].syncedLyrics = Lrc
    /\ result.value[1].plainLyrics = Txt

\* C18: the exact-signature query carries artist, title, album and duration
\* (the album and the duration as empty strings when the metadata has none,
\* the duration in decimal otherwise), the artist+title query carries the
\* artist and the title only, the title-only query carries the title only;
\* no query of tier 2 or 3 carries a duration.
C18_QueryParameters ==
    \A i \in 1..Len(requests) :
        LET q == requests[i]
        IN  /\ q.track_name = <<metadata.title>>
            /\ q.tier = 1 =>
                  /\ q.artist_name = <<metadata.artist>>
                  /\ Len(q.album_name) = 1 /\ Len(q.duration) = 1
                  /\ metadata.album.t = "string" => q.album_name[1] = metadata.album.s
                  /\ metadata.album.t = "undefined" => q.album_name[1] = <<>>
                  /\ metadata.duration = Num(215) => q.duration[1] = <<"2", "1", "5">>
                  /\ metadata.duration = Num(0) => q.duration[1] = <<"0">>
                  /\ metadata.duration.t = "undefined" => q.duration[1] = <<>>
            /\ q.tier = 2 =>
                  /\ q.artist_name = <<metadata.artist>>
                  /\ q.album_name = <<>> /\ q.duration = <<>>
            /\ q.tier = 3 =>
                  q.artist_name = <<>> /\ q.album_name = <<>> /\ q.duration = <<>>

\* A finished call for metadata with an album and a duration that issued the
\* query of each of the three tiers.
C18_Witness ==
    /\ pc = "done" /\ Len(requests) = 3
    /\ metadata.duration = Num(215) /\ metadata.album = Str(<<"L">>)
    /\ {requests[i].tier : i \in 1..3} = {1, 2, 3}

-----------------------------------------------------------------------------
\* C16: of two calls with the same metadata and options on one client whose
\* transport is deterministic, the second made after the first has finished,
\* the second issues the same queries in the same order and has the same
\* outcome, field for field; it begins with no match recorded.
C16_RepeatedCallSameOutcome ==
    \A p \in after :
        LET first == FrameOf(p[1])
            second == FrameOf(p[2])
        IN  ( first.metadata = second.metadata /\ first.options = second.options )
            => /\ second.pc = "idle" => LocalsOf(second) = LocalsOf(IdleFrame(metadata, options))
               /\ second.pc = "done" =>
                     second.requests = first.requests /\ second.result = first.result

\* Two calls with the same arguments, one made after the other had finished,
\* that both queried three tiers and returned the plain-lyrics fallback.
C16_Witness ==
    \E p \in after :
        /\ FrameOf(p[1]).options = FrameOf(p[2]).options
        /\ FrameOf(p[2]).pc = "done"
        /\ Len(FrameOf(p[2]).requests) = 3
        /\ PlainOnly(FrameOf(p[2]).result.value)

\* C17: whatever the interleaving of the calls on one client, a finished
\* call has issued the queries and has the outcome it would have alone with
\* the same answers; the matches a call has recorded are those of its own
\* answers.
C17_InterleavedCallsIndependent ==
    \A c \in Calls :
        LET f == FrameOf(c)
            alone == Alone(f.metadata, f.options, stub)
        IN  /\ f.pc = "done" => f.requests = alone.requests /\ f.result = alone.result
            /\ Len(f.requests) < 3 => f.titleMatch = <<>>
            /\ f.pc \in {"idle", "findExactMatch"} =>
                  f.exactMatch = <<>> /\ f.artistTitleMatch = <<>>

\* Two calls that overlapped (neither began after the other had finished),
\* one of which returned null after two tiers while the other returned the
\* plain lyrics found by the title-only tier.
C17_Witness ==
    \E c, d \in Calls :
        /\ <<c, d>> \notin after /\ <<d, c>> \notin after
        /\ FrameOf(c).pc = "done" /\ FrameOf(c).result = Returned(<<>>)
        /\ FrameOf(d).pc = "done" /\ PlainOnly(FrameOf(d).result.value)
        /\ FrameOf(d).result.value = FrameOf(d).titleMatch

-----------------------------------------------------------------------------
SettingNames ==
    {"allowTitleOnlySearch", "preferSynced", "skipExisting", "overwriteExisting",
     "size", "delayMs"}

\* C19: when processDirectory is called on a created fetcher without search,
\* file or batch settings of its own, every setting that was given to
\* createLyricsFetcher is the one in effect for the run.
C19_CreationOptionsInEffect ==
    ( /\ dpc \in {"batch", "returned"}
      /\ \A f \in SettingNames : dirOptions[f] = <<>> )
    => \A f \in SettingNames :
          createOptions[f] # <<>> => mergedOptions[f] = createOptions[f][1]

\* A processAudioFile call that failed: it caught an error (extraction,
\* insufficient metadata, lookup, delete or write), or its lookup returned
\* null.
FileFailed(frame) ==
    \/ frame.error # <<>>
    \/ /\ frame.answer # <<>>
       /\ Lookup(ExtractedMetadata(frame.extract)[1], mergedOptions, frame.answer[1]).result
              = Returned(<<>>)

PositiveBatchSize == mergedOptions.size # NaN /\ mergedOptions.size.n > 0

\* C20: whatever happens to a file, processAudioFile never rejects: it
\* fulfils its promise with a ProcessResult for that file, with success=false
\* and an error when the extraction, the lookup, the delete or the write
\* failed or nothing was found; processDirectory does not reject, its results
\* are those of the scanned files in scan order, and with a positive batch
\* size a returned run has one ProcessResult per scanned file.
C20_FailuresDoNotHaltTheRun ==
    /\ dpc # "rejected"
    /\ dpc = "batch" =>
          \A k \in DOMAIN running :
              /\ running[k].pc # "rejected"
              /\ (batchResults[k] # <<>>) <=> (running[k].pc = "done")
              /\ batchResults[k] # <<>> =>
                    /\ batchResults[k][1].filePath = audioFiles[k]
                    /\ FileFailed(running[k]) =>
                          ~batchResults[k][1].success /\ batchResults[k][1].error # <<>>
    /\ dpc \in {"batch", "returned"} =>
          \A k \in 1..Len(allResults) :
              k <= Len(audioFiles) /\ allResults[k].filePath = audioFiles[k]
    /\ (dpc = "returned" /\ PositiveBatchSize) => Len(allResults) = Len(audioFiles)

\* A run over two files in two batches that returned a failure for the first
\* file and a written lyrics file for the second.
C20_Witness ==
    /\ dpc = "returned" /\ Len(audioFiles) = 2 /\ mergedOptions.size = Num(1)
    /\ Len(allResults) = 2
    /\ ~allResults[1].success /\ allResults[1].error = <<"LyricsFetchError">>
    /\ allResults[2].success /\ allResults[2].lyricPath # <<>>

-----------------------------------------------------------------------------
\* Lyric fields of every kind: absent, empty or with text, instrumental or not.
LyricFields ==
    [syncedLyrics : {Null, Str(<<>>), Lrc}, plainLyrics : {Null, Str(<<>>), Txt},
     instrumental : BOOLEAN]

\* The writeFile calls that the processAudioFile call of audioFiles[k] made.
WritesOf(k) == SelectSeq(calls[k], LAMBDA c : c.op = "writeFile")

\* C21: writeLyrics chooses its output by the populated lyric fields: synced
\* lyrics give the .lrc file with the synced text, also when plain lyrics are
\* present; otherwise plain lyrics give the .txt file with the plain text;
\* otherwise instrumental gives the .lrc file with the placeholder; otherwise
\* nothing is written and no path is returned (for every combination of lyric
\* fields and every file of the directory, which does not change in a run).
\* A call that returned a path made exactly one writeFile call, to that path.
C21_WriteLyricsPriority ==
    /\ dpc = "new" => \A l \in LyricFields : \A file \in Range(directory) :
          LET out == WriteLyrics(file, l)
          IN  /\ Truthy(l.syncedLyrics) =>
                    out = <<[path |-> LyricsPath(file, "lrc"), content |-> l.syncedLyrics]>>
              /\ ~Truthy(l.syncedLyrics) /\ Truthy(l.plainLyrics) =>
                    out = <<[path |-> LyricsPath(file, "txt"), content |-> l.plainLyrics]>>
              /\ ~Truthy(l.syncedLyrics) /\ ~Truthy(l.plainLyrics) /\ l.instrumental =>
                    out = <<[path |-> LyricsPath(file, "lrc"), content |-> InstrumentalMarker]>>
              /\ ~Truthy(l.syncedLyrics) /\ ~Truthy(l.plainLyrics) /\ ~l.instrumental =>
                    out = <<>>
    /\ dpc = "batch" =>
          \A k \in DOMAIN running :
              /\ Len(WritesOf(k)) <= 1
              /\ running[k].pc = "writeFile" =>
                    WritesOf(k) # <<>>
                    /\ WritesOf(k)[1].path = <<WriteLyrics(audioFiles[k], running[k].lyrics[1])[1].path>>
              /\ (batchResults[k] # <<>> /\ batchResults[k][1].lyricPath # <<>>) =>
                    /\ Len(WritesOf(k)) = 1
                    /\ WritesOf(k)[1].path = batchResults[k][1].lyricPath
                    /\ LET l == running[k].lyrics[1]
                           ext == batchResults[k][1].lyricPath[1][2]
                       IN  ext = IF Truthy(l.syncedLyrics) THEN "lrc"
                                 ELSE IF Truthy(l.plainLyrics) THEN "txt" ELSE "lrc"

\* A file whose lookup returned synced and plain lyrics and whose call
\* returned the path of the .lrc file, which holds the synced text.
C21_Witness ==
    /\ dpc = "batch"
    /\ \E k \in DOMAIN running :
          /\ batchResults[k] # <<>>
          /\ running[k].lyrics # <<>>
          /\ Truthy(running[k].lyrics[1].syncedLyrics) /\ Truthy(running[k].lyrics[1].plainLyrics)
          /\ batchResults[k][1].lyricPath = <<LyricsPath(audioFiles[k], "lrc")>>
          /\ LyricsPath(audioFiles[k], "lrc") \in DOMAIN lyricsFiles
          /\ lyricsFiles[LyricsPath(audioFiles[k], "lrc")] = running[k].lyrics[1].syncedLyrics

-----------------------------------------------------------------------------
\* C22: while a directory is processed, any two requests to the lookup
\* service are at least the configured delay (batch.delayMs) apart, whether
\* they are queries of files of one batch or successive tier queries of one
\* file.
C22_RequestsSeparatedByDelay ==
    ( dpc \in {"batch", "returned"} /\ mergedOptions.delayMs # NaN ) =>
        \A k1, k2 \in DOMAIN calls :
            \A i \in DOMAIN calls[k1], j \in DOMAIN calls[k2] :
                ( /\ calls[k1][i].op = "get" /\ calls[k2][j].op = "get"
                  /\ <<k1, i>> # <<k2, j>>
                  /\ calls[k1][i].at <= calls[k2][j].at )
                => calls[k2][j].at - calls[k1][i].at >= mergedOptions.delayMs.n

-----------------------------------------------------------------------------
\* The file has a .lrc or a .txt lyrics file in the file system fs.
HasLyrics(file, fs) == \E ext \in {"lrc", "txt"} : LyricsPath(file, ext) \in DOMAIN fs

\* skipExisting is true and overwriteExisting false in the run's options.
Skipping ==
    /\ dpc \in {"batch", "returned"}
    /\ mergedOptions.skipExisting /\ ~mergedOptions.overwriteExisting

\* The files of the directory that the scan left out.
LeftOut == {file \in Range(directory) : file \notin Range(audioFiles)}

\* The ProcessResult of audioFiles[k], <<>> while there is none.
ResultOf(k) ==
    IF k \in DOMAIN batchResults /\ batchResults[k] # <<>> THEN batchResults[k]
    ELSE IF k <= Len(allResults) THEN <<allResults[k]>>
    ELSE <<>>

\* The result of a skipped file.
SkippedResult(file) == ProcessResult(file, BlankMetadata, TRUE, <<>>, <<>>)

\* The processAudioFile call of audioFiles[k] has begun and made no call on
\* the extractor, the lookup service or the file system.
Untouched(k) ==
    /\ k \in DOMAIN running \/ k <= Len(allResults)
    /\ calls[k] = <<>>

-----------------------------------------------------------------------------
\* C24: with overwriteExisting=false, whatever skipExisting is, no step of a
\* run overwrites or deletes a lyrics file that existed before the run: such
\* a file stays in place with its old content.
C24_OldLyricsKept ==
    [][ ( dpc \in {"batch", "returned"} /\ ~mergedOptions.overwriteExisting ) =>
            \A p \in DOMAIN lyricsFiles :
                lyricsFiles[p] = OldLyrics =>
                    p \in DOMAIN lyricsFiles' /\ lyricsFiles'[p] = OldLyrics
      ]_vars

-----------------------------------------------------------------------------
\* The lookup queries that the processAudioFile call of audioFiles[k] issued.
QueriesOf(k) == SelectSeq(calls[k], LAMBDA c : c.op = "get")

\* C25: a file whose extracted metadata is null, or has an empty artist or
\* an empty title, is never searched: its processAudioFile call issues no
\* lookup query, goes to its catch block and returns success=false with an
\* error and no lyricPath.
C25_InsufficientMetadataNotSearched ==
    dpc = "batch" =>
        \A k \in DOMAIN running :
            running[k].extract \in {"null", "noArtist", "noTitle"} =>
                /\ QueriesOf(k) = <<>>
                /\ running[k].pc \in {"catch", "done"}
                /\ running[k].answer = <<>>
                /\ batchResults[k] # <<>> =>
                      /\ ~batchResults[k][1].success
                      /\ batchResults[k][1].error # <<>>
                      /\ batchResults[k][1].lyricPath = <<>>

\* Two files of one batch have returned: one whose metadata has no artist,
\* without a query, and one with artist and title, whose lookup was queried.
C25_Witness ==
    /\ dpc = "batch"
    /\ \E k1, k2 \in DOMAIN running :
          /\ running[k1].extract = "noArtist" /\ running[k1].pc = "done"
          /\ QueriesOf(k1) = <<>>
          /\ batchResults[k1][1].error = <<"Insufficient metadata to search for lyrics">>
          /\ running[k2].extract = "ok" /\ running[k2].pc = "done"
          /\ QueriesOf(k2) # <<>>

-----------------------------------------------------------------------------
\* C26: a searchLyrics call with its options omitted, or with preferSynced or
\* allowTitleOnlySearch left undefined, issues the same queries and has the
\* same outcome as a call with {preferSynced: true, allowTitleOnlySearch:
\* false} that gets the same answers; at every point of the two calls the one
\* that is behind has issued a prefix of the other's queries.
C26_OmittedOptionsAreDefaults ==
    \A c1, c2 \in Calls :
        LET f1 == FrameOf(c1)
            f2 == FrameOf(c2)
        IN  ( f1.options \in OmittedOptions /\ f2.options = ExplicitDefaults ) =>
                /\ ( f1.pc = "done" /\ f2.pc = "done" ) =>
                      f1.requests = f2.requests /\ f1.result = f2.result
                /\ Len(f1.requests) <= Len(f2.requests) =>
                      f1.requests = SubSeq(f2.requests, 1, Len(f1.requests))
                /\ Len(f2.requests) <= Len(f1.requests) =>
                      f2.requests = SubSeq(f1.requests, 1, Len(f2.requests))
                /\ f1.pc = "done" => Len(f2.requests) <= Len(f1.requests)
                /\ f2.pc = "done" => Len(f1.requests) <= Len(f2.requests)

\* A call without options and a call with the defaults written out have both
\* finished: each left a plain-only exact match for a second query, issued no
\* title-only query although it would have found synced lyrics, and returned
\* the plain lyrics.
C26_Witness ==
    /\ stub[1] = Ok(Object(PlainCandidate)) /\ stub[2] = Ok(Scalar(Null))
    /\ stub[3] = Ok(Object(SyncedCandidate))
    /\ \E c1, c2 \in Calls :
          /\ FrameOf(c1).options = [given |-> FALSE, preferSynced |-> Undefined,
                                    allowTitleOnlySearch |-> Undefined]
          /\ FrameOf(c2).options = ExplicitDefaults
          /\ FrameOf(c1).pc = "done" /\ FrameOf(c2).pc = "done"
          /\ Len(FrameOf(c1).requests) = 2
          /\ PlainOnly(FrameOf(c1).result.value)

-----------------------------------------------------------------------------
\* The candidate that the artist test of the title-only tier chooses from a
\* non-empty array whose elements it can test: the first element that passes
\* the test, the first element when none passes.
ChosenByArtistTest(arr, md) ==
    LET passing == {i \in 1..Len(arr) : ArtistMatchCheck(arr[i], md) = "match"}
    IN  IF passing = {} THEN arr[1]
        ELSE arr[CHOOSE i \in passing : \A j \in passing : i <= j]

\* The artist test cannot be applied to some element of the array.
ArtistTestRaises(arr, md) == \E i \in 1..Len(arr) : ArtistMatchCheck(arr[i], md) = "throw"

\* The one candidate that the tier being handled looks at.
Considered ==
    LET arr == response[1].data.arr
    IN  IF HandledTier = 3 THEN ChosenByArtistTest(arr, metadata) ELSE arr[1]

\* C27: for a non-empty array response each tier maps exactly one element:
\* tiers 1 and 2 the first element, tier 3 the element chosen by the artist
\* test (no element when the test raises, and the tier raises).  The tier's
\* match is the mapping of that element alone: when the element has no
\* content the tier has no match, whatever the other elements hold, and the
\* match has synced lyrics only if that element has them.
C27_OneCandidatePerTier ==
    ( /\ Handling /\ HandledTier \in 1..3 /\ response[1].ok
      /\ response[1].data.shape = "array" /\ Len(response[1].data.arr) > 0 )
    => IF HandledTier = 3 /\ ArtistTestRaises(response[1].data.arr, metadata)
       THEN TierOutcome.threw
       ELSE /\ ~TierOutcome.threw
            /\ TierOutcome.value = ProcessApiResponse(Considered, metadata)
            /\ ~RawHasContent(Considered) => TierOutcome.value = <<>>
            /\ ( TierOutcome.value # <<>> /\ Truthy(TierOutcome.value[1].syncedLyrics) ) =>
                  \E i \in 1..3 : Truthy(Considered.obj[SyncedKeys[i]])

\* The title-only tier handles an array whose first element passes the
\* artist test and has no content and whose second element has synced
\* lyrics: the tier has no match.
C27_Witness ==
    /\ Handling /\ HandledTier = 3 /\ response[1].ok
    /\ response[1].data = Array(<<Object(ContentlessCandidate), Object(SyncedCandidate)>>)
    /\ ArtistMatchCheck(Object(ContentlessCandidate), metadata) = "match"
    /\ TierOutcome = Return(<<>>)

-----------------------------------------------------------------------------
\* The files whose processAudioFile call has begun and has not returned.
InFlight == {k \in DOMAIN running : running[k].pc # "done"}

\* The files (by place in the scan) of the n-th batch of a run with a
\* positive batch size.
FilesOfBatch(n) ==
    {k \in 1..Len(audioFiles) :
        (n - 1) * mergedOptions.size.n < k /\ k <= n * mergedOptions.size.n}

\* C28: with a positive batch size, the calls of the loop's n-th iteration
\* are those of the n-th batch.size files of the scan; never more than
\* batch.size files are in flight; while batch n runs, every file of an
\* earlier batch has its ProcessResult in the results and no file of a later
\* batch has begun; every call of the batch has begun (it has called
\* extractMetadata or returned as skipped) before any await of the batch
\* settles, so the files of one batch run concurrently.
C28_BatchesOfBatchSize ==
    ( dpc = "batch" /\ PositiveBatchSize ) =>
        /\ DOMAIN running = FilesOfBatch(batchNo)
        /\ DOMAIN running # {}
        /\ Cardinality(InFlight) <= mergedOptions.size.n
        /\ Len(allResults) = Cardinality(UNION {FilesOfBatch(n) : n \in 1..(batchNo - 1)})
        /\ \A k \in 1..Len(audioFiles) :
              /\ ( \E n \in 1..(batchNo - 1) : k \in FilesOfBatch(n) ) =>
                    k <= Len(allResults) /\ allResults[k].filePath = audioFiles[k]
              /\ ( \A n \in 1..batchNo : k \notin FilesOfBatch(n) ) => calls[k] = <<>>
        /\ \A k \in DOMAIN running : calls[k] # <<>> \/ batchResults[k] # <<>>

\* Two files of one batch of size 2 are in flight at once, both waiting for
\* the lookup service.
C28_Witness ==
    /\ dpc = "batch" /\ mergedOptions.size = Num(2)
    /\ Cardinality(InFlight) = 2
    /\ \A k \in InFlight : running[k].pc = "searchLyrics"

-----------------------------------------------------------------------------
\* C29: whatever batch.size is, every iteration of the batch loop makes
\* progress (it processes at least one file and moves the loop index
\* forward), so the loop ends after at most as many iterations as there are
\* files, and a run that has returned has processed every scanned file.
C29_BatchLoopTerminates ==
    [][ /\ ( dpc = "batch" /\ (batchNo' # batchNo \/ dpc' = "returned") ) =>
              /\ processed' > processed
              /\ JsLess(loopIndex, loopIndex')
        /\ dpc' = "batch" => batchNo' <= Len(audioFiles')
        /\ dpc' = "returned" =>
              /\ processed' = Len(audioFiles')
              /\ Len(allResults') = Len(audioFiles')
      ]_vars

-----------------------------------------------------------------------------
\* The places in the call log of audioFiles[k] of its calls with the given
\* operations.
PlacesOf(k, ops) == {i \in DOMAIN calls[k] : calls[k][i].op \in ops}

\* The lyrics paths of audioFiles[k]; another audio file has the same ones.
OwnPaths(k) == {LyricsPath(audioFiles[k], "lrc"), LyricsPath(audioFiles[k], "txt")}
HasTwin(k) == \E j \in 1..Len(audioFiles) : j # k /\ audioFiles[j].base = audioFiles[k].base

\* C30: with overwriteExisting=true, a processAudioFile call unlinks and
\* writes only lyrics files of its own track, only after its lookup returned
\* a LyricResult and after its last query, and its write comes after all its
\* unlinks; when the write begins, no old lyrics file of the track is left
\* (unless a file of the same base name is processed too).  A call whose
\* lookup returned nothing or raised makes no unlink and no write, and no
\* step changes the lyrics files except the settling of an unlink or of a
\* write of a call whose lookup returned a LyricResult.
C30_DeleteAfterLookupThenWrite ==
    [][ ( dpc' = "batch" /\ mergedOptions'.overwriteExisting ) =>
          /\ \A k \in DOMAIN running' :
                LET f == running'[k]
                    unlinks == PlacesOf(k, {"unlink"})'
                    writes == PlacesOf(k, {"writeFile"})'
                    gets == PlacesOf(k, {"get"})'
                IN  /\ f.lyrics = <<>> => unlinks = {} /\ writes = {}
                    /\ \A i \in unlinks \cup writes :
                          /\ calls'[k][i].path[1] \in OwnPaths(k)'
                          /\ \A g \in gets : g < i
                    /\ \A u \in unlinks, w \in writes : u < w
                    /\ Cardinality(writes) <= 1
                    /\ f.pc \in {"lrc", "txt"} => writes = {}
                    /\ ( f.pc = "writeFile" /\ ~HasTwin(k)' ) =>
                          OwnPaths(k)' \cap DOMAIN lyricsFiles' = {}
                    /\ ( batchResults'[k] # <<>> /\ ~batchResults'[k][1].success
                         /\ f.lyrics = <<>> /\ ~HasTwin(k)' ) =>
                          \A p \in OwnPaths(k)' \cap DOMAIN lyricsFiles' :
                              lyricsFiles'[p] = OldLyrics
          /\ lyricsFiles' # lyricsFiles =>
                \E k \in DOMAIN running :
                    /\ running[k].pc \in {"lrc", "txt", "writeFile"}
                    /\ running[k].lyrics # <<>>
                    /\ running'[k] # running[k]
                    /\ \A p \in DOMAIN lyricsFiles \cup DOMAIN lyricsFiles' :
                          ( p \notin DOMAIN lyricsFiles \/ p \notin DOMAIN lyricsFiles'
                            \/ lyricsFiles'[p] # lyricsFiles[p] ) => p \in OwnPaths(k)
      ]_vars

\* A file with an old .lrc file, processed with overwriteExisting=true, whose
\* lookup returned plain lyrics: the call unlinked the .lrc file, then wrote
\* the .txt file, which is the only lyrics file of the track now.
C30_Witness ==
    /\ dpc = "batch" /\ mergedOptions.overwriteExisting
    /\ \E k \in DOMAIN running :
          /\ running[k].pc = "done" /\ batchResults[k][1].success
          /\ [i \in DOMAIN calls[k] |-> calls[k][i].op]
                = <<"extractMetadata", "get", "unlink", "writeFile">>
          /\ calls[k][3].path = <<LyricsPath(audioFiles[k], "lrc")>>
          /\ OwnPaths(k) \cap DOMAIN lyricsFiles = {LyricsPath(audioFiles[k], "txt")}

\* A file with an old .lrc file, processed with overwriteExisting=true, whose
\* lookup found nothing: the call has returned and the old file is in place.
C30_NotFoundWitness ==
    /\ dpc = "batch" /\ mergedOptions.overwriteExisting
    /\ \E k \in DOMAIN running :
          /\ running[k].pc = "done" /\ batchResults[k][1].error = <<"No lyrics found">>
          /\ LyricsPath(audioFiles[k], "lrc") \in DOMAIN lyricsFiles
          /\ lyricsFiles[LyricsPath(audioFiles[k], "lrc")] = OldLyrics

-----------------------------------------------------------------------------
\* The errors of the file system: a failed unlink and a failed writeFile.
IOFailures == {<<"ENOENT">>, <<"writeFile failed">>}

\* C31: writeLyrics has a file to write for every LyricResult that the
\* mapping of a raw candidate can give, hence for every result of
\* searchLyrics; a processAudioFile call whose lookup returned a LyricResult
\* goes on to a writeFile, and unless an unlink or the writeFile failed it
\* returns success=true with the path of the file, which has been written:
\* it never returns success=false without an error.
C31_FoundResultIsWritten ==
    /\ dpc = "new" =>
          \A e \in Elements : \A file \in Range(directory) :
              \A md \in {ClientMetadata} :
                  ProcessApiResponse(e, md) # <<>> =>
                      WriteLyrics(file, ProcessApiResponse(e, md)[1]) # <<>>
    /\ dpc = "batch" =>
          \A k \in DOMAIN running :
              LET f == running[k]
              IN  /\ f.lyrics # <<>> => WriteLyrics(audioFiles[k], f.lyrics[1]) # <<>>
                  /\ batchResults[k] # <<>> =>
                        /\ ~(~batchResults[k][1].success /\ batchResults[k][1].error = <<>>)
                        /\ f.lyrics # <<>> =>
                              IF f.error \in IOFailures
                              THEN /\ ~batchResults[k][1].success
                                   /\ batchResults[k][1].error = f.error
                              ELSE /\ f.error = <<>>
                                   /\ batchResults[k][1].success
                                   /\ batchResults[k][1].lyricPath =
                                         <<WriteLyrics(audioFiles[k], f.lyrics[1])[1].path>>
                                   /\ Len(WritesOf(k)) = 1

\* A file whose lookup returned an instrumental result without lyrics text
\* has returned success=true with the path of its .lrc file, which holds the
\* placeholder.
C31_Witness ==
    /\ dpc = "batch"
    /\ \E k \in DOMAIN running :
          /\ running[k].pc = "done" /\ running[k].lyrics # <<>>
          /\ running[k].lyrics[1].instrumental
          /\ ~Truthy(running[k].lyrics[1].syncedLyrics)
          /\ ~Truthy(running[k].lyrics[1].plainLyrics)
          /\ batchResults[k][1].success
          /\ batchResults[k][1].lyricPath = <<LyricsPath(audioFiles[k], "lrc")>>
          /\ lyricsFiles[LyricsPath(audioFiles[k], "lrc")] = InstrumentalMarker

-----------------------------------------------------------------------------
\* The batch-level progress reports of the run, onProgress(processed, total),
\* in the order of the calls; the reports of single files carry the file.
BatchReports == SelectSeq(progress, LAMBDA r : r.file = <<>>)

\* The number of iterations of the batch loop that have come to their end.
BatchesDone == IF dpc = "batch" THEN batchNo - 1 ELSE batchNo

\* C32: in a run with an onProgress callback and a positive batch size there
\* is one batch-level report per finished batch; in the n-th report total is
\* the number of scanned files and processed is the number of files of the
\* first n batches, which is the previous report's value plus the size of
\* the n-th batch; the latest report's processed is the number of results
\* gathered so far, and when the run has returned it equals total and the
\* length of the returned results.  Without a callback nothing is reported.
C32_BatchReportsMonotonicAndComplete ==
    ( dpc \in {"batch", "returned"} /\ PositiveBatchSize ) =>
        IF mergedOptions.onProgress
        THEN /\ Len(BatchReports) = BatchesDone
             /\ \A n \in 1..Len(BatchReports) :
                   LET before == IF n = 1 THEN 0 ELSE BatchReports[n - 1].current
                   IN  /\ BatchReports[n].total = Len(audioFiles)
                       /\ BatchReports[n].current = before + Cardinality(FilesOfBatch(n))
                       /\ BatchReports[n].current > before
                       /\ BatchReports[n].current <= BatchReports[n].total
             /\ BatchReports # <<>> =>
                   /\ BatchReports[Len(BatchReports)].current = Len(allResults)
                   /\ BatchReports[Len(BatchReports)].current = processed
             /\ ( dpc = "returned" /\ audioFiles # <<>> ) =>
                   /\ BatchReports # <<>>
                   /\ BatchReports[Len(BatchReports)].current = Len(audioFiles)
                   /\ BatchReports[Len(BatchReports)].total = Len(allResults)
        ELSE progress = <<>>

\* A returned run over two files in batches of one file: the reports were
\* (1, 2) and (2, 2).
C32_Witness ==
    /\ dpc = "returned" /\ mergedOptions.size = Num(1) /\ Len(allResults) = 2
    /\ [n \in DOMAIN BatchReports |-> <<BatchReports[n].current, BatchReports[n].total>>]
          = << <<1, 2>>, <<2, 2>> >>

====
